---- MODULE Spec2Model ----
(***************************************************************************)
(* Model of the brainrot video generator: the script helpers of            *)
(* ContentGenerator (generate_captions, optimize_for_platform,             *)
(* generate_summary) and the two job pipelines (the hosted-API             *)
(* BrainrotGenerator.process_pdf and the local-model                       *)
(* BrainrotPipeline.process_paper).                                        *)
(*                                                                         *)
(* A Python str is a sequence of one-character strings.  A time in seconds *)
(* is kept as an exact number of milliseconds.                             *)
(***************************************************************************)
EXTENDS Integers, Sequences, FiniteSets, TLC

VARIABLES
    script,             \* argument `script` of the helper under test
    platform,           \* argument `platform`
    words_per_caption,  \* argument `words_per_caption`
    called,             \* which helper has returned ("none" before the call)
    ret,                \* the value the helper returned
    variant,            \* "hosted" (process_pdf) or "local" (process_paper)
    pc,                 \* the stage the job is about to run
    llm_calls,          \* requests generate_summary has sent to the LLM
    llm_outcome,        \* how the latest of these requests ended
    job_platform,       \* platform of the job
    job_k,              \* config['words_per_caption']
    job_script,         \* the narration script of the job
    job_captions,       \* the captions of the job
    analysis,           \* local variant: where the analysis text came from
    audio,              \* the temporary narration file
    video_outcome,      \* how the encoder call of the job ended
    files,              \* output artifacts written by the job
    failed_at,          \* the stage that ended the job early
    result,             \* what the job returned to its caller
    source_clip,        \* the background video handed to _prepare_background
    audio_duration,     \* the duration of the narration audio
    job_voice,          \* the voice of the job
    sidecar,            \* the metadata written next to the video
    request,            \* what else the helper under test is given or meets
    trace,              \* the stages the job has invoked, in order
    caught,             \* the stages at which the job caught an error
    logged,             \* the stages whose error was logged or printed
    exit_status,        \* "running", or the status the process ended with
    startup,            \* how main() got to where it is
    mode,               \* the operation the command line asked for
    cfg_source,         \* "none", "config_json" (found in cwd) or "cli" (--config)
    file_keys,          \* the keys the config file sets
    config,             \* self.config
    args,               \* --platform and --voice
    batch_n,            \* len(pdf_files)
    batch_i,            \* index of the input file being processed
    batch_results,      \* `results` of batch_process, as input indexes
    batch_processed,    \* the inputs process_pdf was called with, in order
    batch_outcomes      \* what each of these calls returned

clipVars == <<source_clip, audio_duration>>

textVars == <<script, platform, words_per_caption, called, ret, clipVars, request>>

metaVars == <<job_voice, sidecar>>

jobFields == <<metaVars, llm_calls, llm_outcome, job_platform, job_k, job_script,
               job_captions, analysis, audio, video_outcome, files, failed_at,
               result, trace, caught, logged>>

mainVars == <<exit_status, startup, mode, cfg_source, file_keys, config, args,
              batch_n, batch_i>>

batchHistory == <<batch_results, batch_processed, batch_outcomes>>

jobVars == <<variant, pc, mainVars, batchHistory, jobFields>>

vars == <<textVars, jobVars>>

-----------------------------------------------------------------------------
(* Bounds of the checked input space.                                      *)

\* longest script enumerated character by character
MaxLen == 5
\* largest words_per_caption
MaxK == 3
\* largest word count of the scripts enumerated word by word
MaxTokens == 7
\* largest word count of the generated long scripts
MaxWords == 201

-----------------------------------------------------------------------------
(* Python strings.                                                         *)

\* characters str.split() treats as separators
Whitespace == {" ", "\n"}

Letters == {"a", "b"}

\* s[i] belongs to a word
InWord(s, i) == i >= 1 /\ i <= Len(s) /\ s[i] \notin Whitespace

WordStart(s, i) == InWord(s, i) /\ ~InWord(s, i - 1)
WordEnd(s, i)   == InWord(s, i) /\ ~InWord(s, i + 1)

\* the positions lo..hi of s, in order, where a word starts (or ends)
RECURSIVE Positions(_, _, _, _)
Positions(s, lo, hi, starting) ==
    IF lo > hi THEN <<>>
    ELSE IF lo = hi
         THEN (IF (IF starting THEN WordStart(s, lo) ELSE WordEnd(s, lo))
               THEN <<lo>> ELSE <<>>)
         ELSE LET mid == (lo + hi) \div 2
              IN  Positions(s, lo, mid, starting) \o Positions(s, mid + 1, hi, starting)

\* str.split(): the maximal runs of non-whitespace characters, in order
Split(s) ==
    LET starts == Positions(s, 1, Len(s), TRUE)
        ends   == Positions(s, 1, Len(s), FALSE)
    IN  [j \in 1..Len(starts) |-> SubSeq(s, starts[j], ends[j])]

RECURSIVE JoinRange(_, _, _)
JoinRange(words, lo, hi) ==
    IF lo > hi THEN <<>>
    ELSE IF lo = hi THEN words[lo]
    ELSE LET mid == (lo + hi) \div 2
         IN  JoinRange(words, lo, mid) \o <<" ">> \o JoinRange(words, mid + 1, hi)

\* ' '.join(words)
Join(words) == JoinRange(words, 1, Len(words))

\* words[:n]
Take(words, n) == SubSeq(words, 1, IF n < Len(words) THEN n ELSE Len(words))

-----------------------------------------------------------------------------
(* ContentGenerator.generate_captions                                      *)

words_per_minute == 150
SecondsPerMinute == 60
\* x seconds in milliseconds
Seconds(x) == x * 1000

\* the duration with the rate multiplied instead of divided
CaptionDurationTimesRate(word_count) ==
    Seconds(word_count * words_per_minute) \div SecondsPerMinute

\* word_count / words_per_second, words_per_second = 150 / 60
CaptionDuration(word_count) ==
    Seconds(word_count * SecondsPerMinute) \div words_per_minute

\* the grouping loop without the flush of the remaining words
RECURSIVE GroupWordsNoFlush(_, _, _, _, _)
GroupWordsNoFlush(words, i, current_segment, captions, k) ==
    IF i > Len(words) THEN captions
    ELSE LET seg == Append(current_segment, words[i])
         IN  IF Len(seg) >= k
             THEN GroupWordsNoFlush(words, i + 1, <<>>, Append(captions, Join(seg)), k)
             ELSE GroupWordsNoFlush(words, i + 1, seg, captions, k)

\* the grouping loop with > in place of >=
RECURSIVE GroupWordsStrict(_, _, _, _, _)
GroupWordsStrict(words, i, current_segment, captions, k) ==
    IF i > Len(words)
    THEN IF current_segment # <<>>
         THEN Append(captions, Join(current_segment))
         ELSE captions
    ELSE LET seg == Append(current_segment, words[i])
         IN  IF Len(seg) > k
             THEN GroupWordsStrict(words, i + 1, <<>>, Append(captions, Join(seg)), k)
             ELSE GroupWordsStrict(words, i + 1, seg, captions, k)

\* the loop of lines 132-141: append each word, flush a full segment, then
\* flush what remains
RECURSIVE GroupWords(_, _, _, _, _)
GroupWords(words, i, current_segment, captions, k) ==
    IF i > Len(words)
    THEN IF current_segment # <<>>
         THEN Append(captions, Join(current_segment))
         ELSE captions
    ELSE LET seg == Append(current_segment, words[i])
         IN  IF Len(seg) >= k
             THEN GroupWords(words, i + 1, <<>>, Append(captions, Join(seg)), k)
             ELSE GroupWords(words, i + 1, seg, captions, k)

\* the timing loop with the clock advanced before the caption is recorded
RECURSIVE TimeCaptionsAdvanceFirst(_, _, _, _)
TimeCaptionsAdvanceFirst(captions, i, current_time, caption_data) ==
    IF i > Len(captions) THEN caption_data
    ELSE LET word_count == Len(Split(captions[i]))
             duration   == CaptionDuration(word_count)
             advanced   == current_time + duration
         IN  TimeCaptionsAdvanceFirst(captions, i + 1, advanced,
                 Append(caption_data,
                        [text     |-> captions[i],
                         start    |-> advanced,
                         duration |-> duration,
                         end      |-> advanced + duration]))

\* the loop of lines 148-159
RECURSIVE TimeCaptions(_, _, _, _)
TimeCaptions(captions, i, current_time, caption_data) ==
    IF i > Len(captions) THEN caption_data
    ELSE LET word_count == Len(Split(captions[i]))
             duration   == CaptionDuration(word_count)
         IN  TimeCaptions(captions, i + 1, current_time + duration,
                 Append(caption_data,
                        [text     |-> captions[i],
                         start    |-> current_time,
                         duration |-> duration,
                         end      |-> current_time + duration]))

generate_captions(s, k) ==
    TimeCaptions(GroupWords(Split(s), 1, <<>>, <<>>, k), 1, 0, <<>>)

-----------------------------------------------------------------------------
(* Python floats.  A float is an IEEE 754 binary64 number m * 2^e with a   *)
(* mantissa m of 53 bits, and every operation rounds its exact result to   *)
(* the nearest such number, ties to the even mantissa.  A mantissa is a    *)
(* natural number kept as the little-endian sequence of its digits in base *)
(* 2^15, without leading zero digits; <<>> is 0.  The durations of a       *)
(* script are far from the overflow and underflow thresholds.              *)

LimbBits == 15

LimbBase == 2^LimbBits

MantissaBits == 53

RECURSIVE BigNorm(_)
BigNorm(a) ==
    IF a = <<>> THEN a
    ELSE IF a[Len(a)] = 0 THEN BigNorm(SubSeq(a, 1, Len(a) - 1)) ELSE a

\* a natural number below 2^30
BigOf(n) == BigNorm(<<n % LimbBase, n \div LimbBase>>)

RECURSIVE BigAddFrom(_, _, _, _)
BigAddFrom(a, b, i, carry) ==
    IF i > Len(a) /\ i > Len(b)
    THEN (IF carry = 0 THEN <<>> ELSE <<carry>>)
    ELSE LET s == (IF i <= Len(a) THEN a[i] ELSE 0)
                  + (IF i <= Len(b) THEN b[i] ELSE 0) + carry
         IN  <<s % LimbBase>> \o BigAddFrom(a, b, i + 1, s \div LimbBase)

BigAdd(a, b) == BigAddFrom(a, b, 1, 0)

\* a - b for a >= b
RECURSIVE BigSubFrom(_, _, _, _)
BigSubFrom(a, b, i, borrow) ==
    IF i > Len(a) THEN <<>>
    ELSE LET d == a[i] - (IF i <= Len(b) THEN b[i] ELSE 0) - borrow
         IN  IF d < 0
             THEN <<d + LimbBase>> \o BigSubFrom(a, b, i + 1, 1)
             ELSE <<d>> \o BigSubFrom(a, b, i + 1, 0)

BigSub(a, b) == BigNorm(BigSubFrom(a, b, 1, 0))

\* a <= b
RECURSIVE BigLeqFrom(_, _, _)
BigLeqFrom(a, b, i) ==
    IF i = 0 THEN TRUE
    ELSE IF a[i] # b[i] THEN a[i] < b[i]
    ELSE BigLeqFrom(a, b, i - 1)

BigLeq(a, b) ==
    IF Len(a) # Len(b) THEN Len(a) < Len(b) ELSE BigLeqFrom(a, b, Len(a))

\* a * c for a digit c
RECURSIVE BigMulFrom(_, _, _, _)
BigMulFrom(a, c, i, carry) ==
    IF i > Len(a)
    THEN (IF carry = 0 THEN <<>> ELSE <<carry>>)
    ELSE LET s == a[i] * c + carry
         IN  <<s % LimbBase>> \o BigMulFrom(a, c, i + 1, s \div LimbBase)

BigMulSmall(a, c) == BigNorm(BigMulFrom(a, c, 1, 0))

\* quotient and remainder of a by a digit d > 0, from the top digit down
RECURSIVE BigDivFrom(_, _, _, _)
BigDivFrom(a, d, i, r) ==
    IF i = 0 THEN [q |-> <<>>, r |-> r]
    ELSE LET cur  == r * LimbBase + a[i]
             rest == BigDivFrom(a, d, i - 1, cur % d)
         IN  [q |-> Append(rest.q, cur \div d), r |-> rest.r]

BigDivSmall(a, d) ==
    LET x == BigDivFrom(a, d, Len(a), 0)
    IN  [q |-> BigNorm(x.q), r |-> x.r]

RECURSIVE BitLenSmall(_)
BitLenSmall(x) == IF x = 0 THEN 0 ELSE 1 + BitLenSmall(x \div 2)

BigBitLen(a) ==
    IF a = <<>> THEN 0
    ELSE LimbBits * (Len(a) - 1) + BitLenSmall(a[Len(a)])

\* a * 2^s
BigShl(a, s) ==
    IF a = <<>> THEN a
    ELSE BigMulSmall([i \in 1..(s \div LimbBits) |-> 0] \o a, 2^(s % LimbBits))

\* floor(a / 2^s), and whether anything was dropped
BigShr(a, s) ==
    LET drop == s \div LimbBits
        kept == IF drop >= Len(a) THEN <<>> ELSE SubSeq(a, drop + 1, Len(a))
        x    == BigDivSmall(kept, 2^(s % LimbBits))
    IN  [q      |-> x.q,
         sticky |-> \/ x.r # 0
                    \/ \E i \in 1..Len(a) : i <= drop /\ a[i] # 0]

BigIsOdd(a) == a # <<>> /\ a[1] % 2 = 1

FloatZero == [m |-> <<>>, e |-> 0]

\* the exact value q * 2^e, or one just above it when `sticky`, rounded to
\* the nearest float, ties to even
FloatRound(q, sticky, e) ==
    IF q = <<>> THEN FloatZero
    ELSE LET len == BigBitLen(q)
         IN  IF len <= MantissaBits
             THEN [m |-> BigShl(q, MantissaBits - len),
                   e |-> e - (MantissaBits - len)]
             ELSE LET s       == len - MantissaBits
                      guarded == BigShr(q, s - 1)
                      floor   == BigShr(guarded.q, 1).q
                      up      == /\ BigIsOdd(guarded.q)
                                 /\ (guarded.sticky \/ sticky \/ BigIsOdd(floor))
                      m       == IF up THEN BigAdd(floor, <<1>>) ELSE floor
                  IN  IF BigBitLen(m) > MantissaBits
                      THEN [m |-> BigShr(m, 1).q, e |-> e + s + 1]
                      ELSE [m |-> m, e |-> e + s]

\* the quotient is computed to this many binary places before it is rounded
DivisionPlaces == 75

\* n / d for ints n >= 0 and 0 < d < 2^15, and so x / y for any floats x, y
\* with x / y = n / d exactly
FloatDivide(n, d) ==
    LET x == BigDivSmall(BigShl(BigOf(n), DivisionPlaces), d)
    IN  FloatRound(x.q, x.r # 0, 0 - DivisionPlaces)

\* x * c for a float x and an int 0 <= c < 2^15
FloatTimes(x, c) == FloatRound(BigMulSmall(x.m, c), FALSE, x.e)

\* x + y for floats x, y >= 0
FloatPlus(x, y) ==
    IF x.m = <<>> THEN y
    ELSE IF y.m = <<>> THEN x
    ELSE LET e == IF x.e <= y.e THEN x.e ELSE y.e
         IN  FloatRound(BigAdd(BigShl(x.m, x.e - e), BigShl(y.m, y.e - e)),
                        FALSE, e)

\* |x - y| <= max(x, y) / 2^places, for floats x, y >= 0
FloatWithin(x, y, places) ==
    IF x.m = <<>> \/ y.m = <<>> THEN x.m = y.m
    ELSE LET e  == IF x.e <= y.e THEN x.e ELSE y.e
             a  == BigShl(x.m, x.e - e)
             b  == BigShl(y.m, y.e - e)
             lo == IF BigLeq(a, b) THEN a ELSE b
             hi == IF BigLeq(a, b) THEN b ELSE a
         IN  BigLeq(BigShl(BigSub(hi, lo), places), hi)

\* x / c for a float x >= 0 and an int 0 < c < 2^15
FloatOver(x, c) ==
    LET y == BigDivSmall(BigShl(x.m, DivisionPlaces), c)
    IN  FloatRound(y.q, y.r # 0, x.e - DivisionPlaces)

(* The three duration estimates, as the floats the code computes.          *)

\* content_generator.py line 150: duration = word_count / words_per_second.
\* words_per_second = 150 / 60 is 2.5 exactly, so the quotient is that of
\* word_count * 60 by 150, rounded once.
caption_seconds(word_count) ==
    FloatDivide(word_count * SecondsPerMinute, words_per_minute)

\* the clock of the loop of lines 146-159 after caption i-1; the 'end' of
\* caption i is current_time + duration, the value the clock takes next
RECURSIVE CaptionClock(_, _, _)
CaptionClock(captions, i, current_time) ==
    IF i > Len(captions) THEN current_time
    ELSE CaptionClock(captions, i + 1,
             FloatPlus(current_time, caption_seconds(Len(Split(captions[i])))))

\* the 'end' of the last caption of generate_captions(s, k); the clock's
\* start when there is no caption
last_caption_end(s, k) ==
    CaptionClock(GroupWords(Split(s), 1, <<>>, <<>>, k), 1, FloatZero)

\* the estimate with one division, (word_count * 60) / 150
EstimatedSecondsDividedLast(word_count) ==
    FloatDivide(word_count * SecondsPerMinute, words_per_minute)

\* content_generator.py line 187: (word_count / 150) * 60
estimated_seconds(word_count) ==
    FloatTimes(FloatDivide(word_count, words_per_minute), SecondsPerMinute)

\* voice_generator.py lines 138-143: base_duration = (word_count / 150) * 60,
\* returned divided by speed
estimate_seconds(text, speed) ==
    LET word_count    == Len(Split(text))
        base_duration == FloatTimes(FloatDivide(word_count, 150), 60)
    IN  FloatOver(base_duration, speed)

-----------------------------------------------------------------------------
(* ContentGenerator.optimize_for_platform                                  *)

KnownPlatforms == {"tiktok", "instagram", "youtube"}

platform_limits ==
    [p \in KnownPlatforms |->
        CASE p = "tiktok"    -> [max_duration |-> 180, optimal_duration |-> 60]
          [] p = "instagram" -> [max_duration |-> 90,  optimal_duration |-> 30]
          [] p = "youtube"   -> [max_duration |-> 60,  optimal_duration |-> 45]]

Ellipsis == <<".", ".", ".">>

\* (word_count / 150) * 60, in milliseconds
EstimatedDuration(word_count) ==
    Seconds(word_count * SecondsPerMinute) \div words_per_minute

\* the word budget rounded up instead of truncated
TargetWordsCeil(optimal_duration) ==
    (optimal_duration * words_per_minute + SecondsPerMinute - 1) \div SecondsPerMinute

\* int((optimal_duration / 60) * 150)
TargetWords(optimal_duration) ==
    (optimal_duration * words_per_minute) \div SecondsPerMinute

\* the last target_words words kept instead of the first
TruncateToFitTail(s, limits) ==
    LET all   == Split(s)
        n     == TargetWords(limits.optimal_duration)
        words == IF n < Len(all) THEN SubSeq(all, Len(all) - n + 1, Len(all)) ELSE all
    IN  Join(IF Len(words) < Len(all)
             THEN Append(words, Ellipsis)
             ELSE words)

\* lines 193-201: keep the first target_words words, mark the cut
TruncateToFit(s, limits) ==
    LET words == Take(Split(s), TargetWords(limits.optimal_duration))
    IN  Join(IF Len(words) < Len(Split(s))
             THEN Append(words, Ellipsis)
             ELSE words)

\* a script within the limit handed back re-joined instead of as given
WithinLimitsRejoined(s, limits) ==
    IF EstimatedDuration(Len(Split(s))) <= Seconds(limits.optimal_duration)
    THEN Join(Split(s))
    ELSE TruncateToFit(s, limits)

\* lines 185-201
OptimizeKnown(s, limits) ==
    IF EstimatedDuration(Len(Split(s))) <= Seconds(limits.optimal_duration)
    THEN s
    ELSE TruncateToFit(s, limits)

\* an unknown platform treated as the default platform
UnknownAsDefault(s, p) ==
    OptimizeKnown(s, platform_limits[IF p \in DOMAIN platform_limits THEN p ELSE "tiktok"])

optimize_for_platform(s, p) ==
    IF p \notin DOMAIN platform_limits THEN s
    ELSE OptimizeKnown(s, platform_limits[p])

-----------------------------------------------------------------------------
(* Input scripts.                                                          *)

Chars == Letters \cup Whitespace

\* every string over Chars of length at most MaxLen
SmallScripts == UNION {[1..n -> Chars] : n \in 0..MaxLen}

Words == {<<"a">>, <<"b", "c">>}

\* every script of at most MaxTokens words, single-spaced
WordScripts == {Join(ws) : ws \in UNION {[1..n -> Words] : n \in 0..MaxTokens}}

\* the scenario script of nine words
FoxScript ==
    Join(<< <<"t","h","e">>, <<"q","u","i","c","k">>, <<"b","r","o","w","n">>,
            <<"f","o","x">>, <<"j","u","m","p","s">>, <<"o","v","e","r">>,
            <<"t","h","e">>, <<"l","a","z","y">>, <<"d","o","g">> >>)

\* a script of n one-letter words ("a", "b", "a", ...) separated by sep
LongScript(n, sep) ==
    LET step == 1 + Len(sep)
        len  == IF n = 0 THEN 0 ELSE n * step - Len(sep)
    IN  [i \in 1..len |->
            LET k == (i - 1) % step
            IN  IF k = 0
                THEN (IF ((i - 1) \div step) % 2 = 0 THEN "a" ELSE "b")
                ELSE sep[k]]

Separators == {<<" ">>, <<" ", "\n">>}

LongScripts == {LongScript(n, sep) : n \in 0..MaxWords, sep \in Separators}

Platforms == KnownPlatforms \cup {"facebook"}

-----------------------------------------------------------------------------
(* Caption harness: one call of generate_captions on a drawn input.        *)

\* no clip is under test
ClipIdleSizes ==
    /\ source_clip = [w |-> 9, h |-> 16, duration |-> 500]
    /\ audio_duration = 500

\* no clip is under test and the helper under test is given nothing else
ClipIdle ==
    /\ ClipIdleSizes
    /\ request = <<>>

\* no job is running
JobIdle ==
    /\ variant = "none"
    /\ pc = "idle"
    /\ llm_calls = 0
    /\ llm_outcome = "none"
    /\ job_platform = "tiktok"
    /\ job_k = 5
    /\ job_script = <<>>
    /\ job_captions = <<>>
    /\ analysis = "none"
    /\ audio = "absent"
    /\ video_outcome = "none"
    /\ files = {}
    /\ failed_at = "none"
    /\ result = "pending"
    /\ job_voice = "None"
    /\ sidecar = <<>>
    /\ trace = <<>>
    /\ caught = {}
    /\ logged = {}
    /\ exit_status = "running"
    /\ startup = "none"
    /\ mode = "none"
    /\ cfg_source = "none"
    /\ file_keys = {}
    /\ config = <<>>
    /\ args = <<>>
    /\ batch_n = 0
    /\ batch_i = 0
    /\ batch_results = <<>>
    /\ batch_processed = <<>>
    /\ batch_outcomes = <<>>

InitCaptions ==
    /\ script \in SmallScripts \cup WordScripts \cup {FoxScript}
    /\ words_per_caption \in 1..MaxK \cup {5}
    /\ platform = "tiktok"
    /\ called = "none"
    /\ ret = <<>>
    /\ ClipIdle
    /\ JobIdle

CallGenerateCaptions ==
    /\ called = "none"
    /\ ret' = generate_captions(script, words_per_caption)
    /\ called' = "generate_captions"
    /\ UNCHANGED <<script, platform, words_per_caption, clipVars, request, jobVars>>

NextCaptions == CallGenerateCaptions

SpecCaptions == InitCaptions /\ [][NextCaptions]_vars

(* Platform harness: one call of optimize_for_platform on a drawn input.   *)

InitOptimize ==
    /\ script \in SmallScripts \cup LongScripts
    /\ platform \in Platforms
    /\ words_per_caption = 5
    /\ called = "none"
    /\ ret = <<>>
    /\ ClipIdle
    /\ JobIdle

CallOptimizeForPlatform ==
    /\ called = "none"
    /\ ret' = optimize_for_platform(script, platform)
    /\ called' = "optimize_for_platform"
    /\ UNCHANGED <<script, platform, words_per_caption, clipVars, request, jobVars>>

\* optimize_for_platform on its own result; the first result is kept
CallOptimizeAgain ==
    /\ called = "optimize_for_platform"
    /\ request' = ret
    /\ ret' = optimize_for_platform(ret, platform)
    /\ called' = "optimize_again"
    /\ UNCHANGED <<script, platform, words_per_caption, clipVars, jobVars>>

NextOptimize == CallOptimizeForPlatform \/ CallOptimizeAgain

SpecOptimize == InitOptimize /\ [][NextOptimize]_vars

(* Estimate harness: the three duration estimates of one drawn script.     *)

InitEstimates ==
    /\ script \in WordScripts \cup {FoxScript}
    /\ words_per_caption \in 1..MaxK \cup {5}
    /\ platform = "tiktok"
    /\ called = "none"
    /\ ret = <<>>
    /\ ClipIdle
    /\ JobIdle

CallEstimates ==
    /\ called = "none"
    /\ ret' = [caption_end |-> last_caption_end(script, words_per_caption),
               estimated   |-> estimated_seconds(Len(Split(script))),
               voice       |-> estimate_seconds(script, 1)]
    /\ called' = "estimates"
    /\ UNCHANGED <<script, platform, words_per_caption, clipVars, request, jobVars>>

NextEstimates == CallEstimates

SpecEstimates == InitEstimates /\ [][NextEstimates]_vars

-----------------------------------------------------------------------------
(* VideoAssembler: the background clip and the composed video.             *)
(* A clip is a record of its frame size and its duration; the cut of       *)
(* clip.crop is the pixel box [x1, x2) x [y1, y2) of its frame.            *)

\* the largest frame width and height of a source clip, in pixels
MaxDim == 20

\* the longest clip and narration, in seconds
MaxSeconds == 4

output_width == 1080

output_height == 1920

\* aspect_ratio = 9/16, as numerator and denominator
AspectW == 9

AspectH == 16

\* lines 208-216 taking the tall branch for every frame
CropBoxAlwaysTall(w, h) ==
    LET new_height == (w * AspectH) \div AspectW
    IN  [x1 |-> 0, x2 |-> w,
         y1 |-> (h - new_height) \div 2, y2 |-> (h + new_height) \div 2]

\* lines 205-216: the branch on w / h > aspect_ratio, int(h * aspect_ratio)
\* or int(w / aspect_ratio), and clip.crop called with a centre and a size:
\* crop cuts the rows and columns int(centre - size / 2) up to
\* int(centre + size / 2), and the whole extent along the other axis
CropBox(w, h) ==
    IF w * AspectH > h * AspectW
    THEN LET new_width == (h * AspectW) \div AspectH
         IN  [x1 |-> (w - new_width) \div 2, x2 |-> (w + new_width) \div 2,
              y1 |-> 0, y2 |-> h]
    ELSE LET new_height == (w * AspectH) \div AspectW
         IN  [x1 |-> 0, x2 |-> w,
              y1 |-> (h - new_height) \div 2, y2 |-> (h + new_height) \div 2]

\* the number of copies without the one added at line 228
LoopsRoundedDown(native, target) == target \div native

\* n_loops = int(duration / clip.duration) + 1
Loops(native, target) == (target \div native) + 1

\* _prepare_background: crop, resize, loop when the clip is shorter than the
\* narration, and subclip(0, duration), which sets the duration to
\* duration - 0 whatever the clip holds; `content` is how much of the
\* returned clip has frames of the source under it
prepare_background(clip, duration) ==
    LET n_loops == IF clip.duration < duration
                   THEN Loops(clip.duration, duration) ELSE 1
    IN  [crop     |-> CropBox(clip.w, clip.h),
         w        |-> output_width,
         h        |-> output_height,
         n_loops  |-> n_loops,
         content  |-> n_loops * clip.duration,
         start    |-> 0,
         duration |-> duration]

\* the overlays with set_duration(caption['end'])
CaptionClipsUntilEnd(captions) ==
    [i \in 1..Len(captions) |->
        [start    |-> captions[i].start,
         duration |-> captions[i].end,
         end      |-> captions[i].start + captions[i].end]]

\* _create_caption_clips: one clip per caption, set_start(caption['start'])
\* and set_duration(caption['duration'])
create_caption_clips(captions) ==
    [i \in 1..Len(captions) |->
        [start    |-> captions[i].start,
         duration |-> captions[i].duration,
         end      |-> captions[i].start + captions[i].duration]]

SetMax(S) == CHOOSE x \in S : \A y \in S : y <= x

Min(a, b) == IF a <= b THEN a ELSE b

\* CompositeVideoClip([bg_clip] + caption_clips): the duration of a
\* composition is the latest end of its clips
CompositeVideoClip(bg_clip, caption_clips) ==
    SetMax({bg_clip.duration}
           \cup {caption_clips[i].end : i \in 1..Len(caption_clips)})

\* _select_background returning the placeholder path whether or not
\* _create_default_background could write it
SelectBackgroundAlwaysDefault(library, default_ok) ==
    IF library THEN "library" ELSE "default"

\* _select_background: a video of the backgrounds library when there is
\* one, else what _create_default_background returns, which is None when
\* anything raised while the placeholder was generated
select_background(library, default_ok) ==
    IF library THEN "library"
    ELSE IF default_ok THEN "default" ELSE "None"

\* create_video, lines 75-77: the explicit path when given, else
\* _select_background()
ResolveBackground(explicit, library, default_ok) ==
    IF explicit THEN "explicit" ELSE select_background(library, default_ok)

\* VideoAssembler.create_video: without a background the error is logged and
\* None returned before any clip is built; else the background is prepared,
\* the composition built and encoded, and any exception on the way is
\* logged and turned into None; set_audio leaves the duration of the
\* composition as it is
create_video(clip, captions, duration, background, encode_ok) ==
    IF background = "None"
    THEN [path       |-> "None",
          logged     |-> {"No background video available"},
          composited |-> FALSE,
          encoded    |-> FALSE,
          written    |-> {}]
    ELSE LET bg_clip == prepare_background(clip, duration)
             caption_clips == create_caption_clips(captions)
         IN  IF ~encode_ok
             THEN [path       |-> "None",
                   logged     |-> {"Error creating video"},
                   composited |-> TRUE,
                   encoded    |-> FALSE,
                   written    |-> {}]
             ELSE [path       |-> "video",
                   logged     |-> {},
                   composited |-> TRUE,
                   encoded    |-> TRUE,
                   written    |-> {"video"},
                   overlays   |-> caption_clips,
                   captions   |-> captions,
                   background |-> bg_clip.duration,
                   audio      |-> duration,
                   duration   |-> CompositeVideoClip(bg_clip, caption_clips)]

\* script.get('duration', 90) of the local variant, in seconds
script_duration == 90

\* VideoAgent._create_video_with_text: the encoder is given a colour source
\* of script_duration seconds and the narration, with -shortest
local_create_video(duration) ==
    [path       |-> "video",
     background |-> Seconds(script_duration),
     audio      |-> duration,
     duration   |-> Min(Seconds(script_duration), duration)]

\* durations on a half-second grid
Durations == {500 * j : j \in 1..(2 * MaxSeconds)}

Sizes == 1..MaxDim

(* Background harness: one call of _prepare_background on a drawn clip.    *)

InitBackground ==
    /\ script = <<>>
    /\ platform = "tiktok"
    /\ words_per_caption = 5
    /\ called = "none"
    /\ ret = <<>>
    /\ source_clip \in [w : Sizes, h : Sizes, duration : Durations]
    /\ audio_duration \in Durations
    /\ request = <<>>
    /\ JobIdle

CallPrepareBackground ==
    /\ called = "none"
    /\ ret' = prepare_background(source_clip, audio_duration)
    /\ called' = "_prepare_background"
    /\ UNCHANGED <<script, platform, words_per_caption, clipVars, request, jobVars>>

NextBackground == CallPrepareBackground

SpecBackground == InitBackground /\ [][NextBackground]_vars

(* Composition harness: one call that composes the video of a narration    *)
(* and the captions of a script.                                           *)

ComposeScripts == {LongScript(n, <<" ">>) : n \in 0..MaxTokens}

InitCompose ==
    /\ script \in ComposeScripts
    /\ platform = "tiktok"
    /\ words_per_caption \in 1..MaxK \cup {5}
    /\ called = "none"
    /\ ret = <<>>
    /\ source_clip \in [w : {9}, h : {16}, duration : Durations]
    /\ audio_duration \in Durations
    /\ request = <<>>
    /\ JobIdle

CallCreateVideo ==
    /\ called = "none"
    /\ \E explicit \in BOOLEAN, library \in BOOLEAN, default_ok \in BOOLEAN,
          encode_ok \in BOOLEAN :
          /\ request' = [explicit |-> explicit, library |-> library,
                         default_ok |-> default_ok, encode_ok |-> encode_ok]
          /\ ret' = create_video(source_clip,
                                 generate_captions(script, words_per_caption),
                                 audio_duration,
                                 ResolveBackground(explicit, library, default_ok),
                                 encode_ok)
    /\ called' = "create_video"
    /\ UNCHANGED <<script, platform, words_per_caption, source_clip,
                   audio_duration, jobVars>>

CallLocalCreateVideo ==
    /\ called = "none"
    /\ ret' = local_create_video(audio_duration)
    /\ called' = "_create_video_with_text"
    /\ UNCHANGED <<script, platform, words_per_caption, clipVars, request, jobVars>>

NextCompose == CallCreateVideo \/ CallLocalCreateVideo

SpecCompose == InitCompose /\ [][NextCompose]_vars

-----------------------------------------------------------------------------
(* The job pipelines.                                                      *)

\* no helper is under test
TextIdle ==
    /\ script = <<>>
    /\ platform = "tiktok"
    /\ words_per_caption = 5
    /\ called = "none"
    /\ ret = <<>>
    /\ ClipIdle

\* scripts a job works on
JobScripts == {<<>>, LongScript(2, <<" ">>), LongScript(MaxK + 1, <<" ", "\n">>), FoxScript}

\* the job returns v to its caller at stage st
Return(v, st) ==
    /\ result' = v
    /\ failed_at' = st
    /\ pc' = "done"

\* @retry(stop=stop_after_attempt(3), ...)
stop_after_attempt == 3

\* how one LLM request of generate_summary can end
LLMOutcomes == {"ok", "request_raises", "bad_json", "missing_fields"}

\* the body of generate_summary (lines 52-112): every exception of the
\* request or of json.loads is caught and turned into a None result
SummaryBody(outcome) ==
    CASE outcome = "ok" -> [raised |-> FALSE, value |-> "content"]
      [] OTHER          -> [raised |-> FALSE, value |-> "None"]

\* VideoAssembler.create_video: the path of the written video, or None when
\* no background is available or anything raises
HostedCreateVideo(outcome) ==
    CASE outcome = "written" -> [value |-> "video", written |-> {"video"}]
      [] outcome = "no_background" -> [value |-> "None", written |-> {}]
      [] outcome = "encode_error"  -> [value |-> "None", written |-> {}]

\* _create_video_with_text returning output_path after writing the fallback
LocalCreateVideoReturnsOutputPath(outcome, writable) ==
    CASE outcome = "written" ->
            [raised |-> FALSE, value |-> "video", written |-> {"video"}]
      [] outcome = "process_error" /\ writable ->
            [raised |-> FALSE, value |-> "video", written |-> {"script_txt"}]
      [] OTHER ->
            [raised |-> TRUE, value |-> "raised", written |-> {}]

\* VideoAgent._create_video_with_text: a CalledProcessError of the encoder
\* is answered by writing the detailed script file and returning its path;
\* any other exception of subprocess.run, and a failure to write the script
\* file, leave the function as an exception
LocalCreateVideoWithText(outcome, writable) ==
    CASE outcome = "written" ->
            [raised |-> FALSE, value |-> "video", written |-> {"video"}]
      [] outcome = "process_error" /\ writable ->
            [raised |-> FALSE, value |-> "script_txt", written |-> {"script_txt"}]
      [] OTHER ->
            [raised |-> TRUE, value |-> "raised", written |-> {}]

\* the settings process_pdf reads from self.config
JobKeys == {"voice", "voice_speed", "max_duration", "words_per_caption", "platform"}

ConfigKeys == JobKeys \cup {"openai_model", "tts_service"}

\* the most input files a batch is given
MaxBatch == 2

\* _load_config: the defaults, the environment being unset
Defaults ==
    [key \in ConfigKeys |->
        CASE key = "openai_model"      -> "gpt-4o-mini"
          [] key = "tts_service"       -> "openai"
          [] key = "voice"             -> "nova"
          [] key = "voice_speed"       -> "1.0"
          [] key = "max_duration"      -> "180"
          [] key = "words_per_caption" -> "5"
          [] key = "platform"          -> "tiktok"]

\* what a config file sets a key to, when it sets it
FileValues ==
    [key \in JobKeys |->
        CASE key = "voice"             -> "echo"
          [] key = "voice_speed"       -> "1.5"
          [] key = "max_duration"      -> "60"
          [] key = "words_per_caption" -> "2"
          [] key = "platform"          -> "facebook"]

\* an empty dict
NoConfig == [key \in {} |-> "None"]

\* the dict json.load returns for a file that sets `keys`
FileConfig(keys) == [key \in keys |-> FileValues[key]]

\* int(config['words_per_caption'])
WordsPerCaption(value) == IF value = "2" THEN 2 ELSE 5

\* dict.update: the keys of `other` override, every other key is kept
Update(config_, other) ==
    [key \in DOMAIN config_ \cup DOMAIN other |->
        IF key \in DOMAIN other THEN other[key] ELSE config_[key]]

\* _load_config: config.json, when it is there, is merged over the defaults;
\* when it cannot be loaded the handler calls self.logger, which __init__
\* assigns only after _load_config has returned (lines 59-60, 95)
load_config(has_config_json, keys, loadable) ==
    IF ~has_config_json THEN [raised |-> FALSE, config |-> Defaults]
    ELSE IF loadable
         THEN [raised |-> FALSE, config |-> Update(Defaults, FileConfig(keys))]
         ELSE [raised |-> TRUE, config |-> NoConfig]

\* BrainrotGenerator.__init__, line 59: self.config = config or
\* self._load_config(); a non-empty dict passed in is taken as it is
BrainrotGeneratorInit(cli_config, has_config_json, keys, loadable) ==
    IF DOMAIN cli_config # {}
    THEN [raised |-> FALSE, config |-> cli_config]
    ELSE load_config(has_config_json, keys, loadable)

\* what a run of the command line was asked to do
Modes == {"single", "batch", "add_backgrounds", "list_backgrounds"}

\* --platform and --voice, "None" when the option is not given
ArgSets == [platform : {"None", "youtube"}, voice : {"None", "onyx"}]

\* no job has run yet
FreshJob ==
    /\ llm_calls = 0
    /\ llm_outcome = "none"
    /\ job_platform = "None"
    /\ job_k = 0
    /\ job_script = <<>>
    /\ job_captions = <<>>
    /\ analysis = "none"
    /\ audio = "absent"
    /\ video_outcome = "none"
    /\ files = {}
    /\ failed_at = "none"
    /\ result = "pending"
    /\ job_voice = "None"
    /\ sidecar = <<>>
    /\ trace = <<>>
    /\ caught = {}
    /\ logged = {}

\* the process has been started and main() not yet entered
InitJob ==
    /\ TextIdle
    /\ variant \in {"hosted", "local"}
    /\ pc = "main"
    /\ exit_status = "running"
    /\ startup = "none"
    /\ mode = "none"
    /\ cfg_source = "none"
    /\ file_keys = {}
    /\ config = NoConfig
    /\ args = [platform |-> "None", voice |-> "None"]
    /\ batch_n = 0
    /\ batch_i = 0
    /\ batch_results = <<>>
    /\ batch_processed = <<>>
    /\ batch_outcomes = <<>>
    /\ FreshJob

\* sys.exit(status), or the end of main() with status 0
Exit(status, why) ==
    /\ exit_status' = status
    /\ startup' = why
    /\ pc' = "exit"

\* main() of the hosted variant up to the dispatch on the operation:
\* argparse, --config, the API key, the constructor, the missing input
HostedMain ==
    /\ variant = "hosted" /\ pc = "main"
    /\ \E usage_ok \in BOOLEAN, source \in {"none", "config_json", "cli"},
          keys \in SUBSET JobKeys, loadable \in BOOLEAN, api_key \in BOOLEAN,
          op \in Modes, a \in ArgSets, has_input \in BOOLEAN, n \in 1..MaxBatch :
          LET cli_config == IF source = "cli" THEN FileConfig(keys) ELSE NoConfig
              init == BrainrotGeneratorInit(cli_config, source = "config_json",
                                            keys, loadable)
          IN  /\ source = "none" => keys = {}
              /\ op # "batch" => n = 1
              /\ cfg_source' = source
              /\ file_keys' = keys
              /\ args' = a
              /\ mode' = op
              /\ IF ~usage_ok
                 THEN Exit(2, "usage_error") /\ UNCHANGED <<config, batch_n, batch_i>>
                 ELSE IF source = "cli" /\ ~loadable
                 THEN Exit(1, "config_unreadable") /\ UNCHANGED <<config, batch_n, batch_i>>
                 ELSE IF ~api_key
                 THEN Exit(1, "no_api_key") /\ UNCHANGED <<config, batch_n, batch_i>>
                 ELSE IF init.raised
                 THEN Exit(1, "init_failed") /\ UNCHANGED <<config, batch_n, batch_i>>
                 ELSE /\ config' = init.config
                      /\ IF op \in {"add_backgrounds", "list_backgrounds"}
                         THEN Exit(0, "ran") /\ UNCHANGED <<batch_n, batch_i>>
                         ELSE IF op = "single" /\ ~has_input
                         THEN Exit(1, "no_input") /\ UNCHANGED <<batch_n, batch_i>>
                         ELSE /\ pc' = "validate"
                              /\ startup' = "ran"
                              /\ batch_n' = n
                              /\ batch_i' = 1
                              /\ UNCHANGED exit_status
    /\ UNCHANGED <<textVars, variant, batchHistory, jobFields>>

\* main() of the local variant up to the call of process_paper
LocalMain ==
    /\ variant = "local" /\ pc = "main"
    /\ \E argc \in 1..3, exists \in BOOLEAN :
          IF argc # 2
          THEN Exit(1, "no_input")
          ELSE IF ~exists
          THEN Exit(1, "not_found")
          ELSE pc' = "extract" /\ startup' = "ran" /\ UNCHANGED exit_status
    /\ mode' = "single"
    /\ UNCHANGED <<textVars, variant, cfg_source, file_keys, config, args,
                   batch_n, batch_i, batchHistory, jobFields>>

\* float(config['voice_speed']), in hundredths
SpeedPercent(value) == IF value = "1.5" THEN 150 ELSE 100

\* VoiceGenerator.estimate_duration: (word_count / 150) * 60 / speed, in
\* whole milliseconds
estimate_duration(text, speed_percent) ==
    (EstimatedDuration(Len(Split(text))) * 100) \div speed_percent

\* Path(video_path).with_suffix(suffix), a path being its stem and its suffix
with_suffix(path, suffix) == <<path[1], suffix>>

\* the metadata without the hashtags
MetadataWithoutHashtags(pdf_path, script_, platform_, voice, voice_speed) ==
    [source_pdf |-> pdf_path,
     title      |-> "title",
     script     |-> script_,
     platform   |-> platform_,
     voice      |-> voice,
     duration   |-> estimate_duration(script_, SpeedPercent(voice_speed))]

\* the dict process_pdf hands to _save_metadata (lines 218-226); title and
\* hashtags are those of the generated content
Metadata(pdf_path, script_, platform_, voice, voice_speed) ==
    [source_pdf |-> pdf_path,
     title      |-> "title",
     script     |-> script_,
     hashtags   |-> "hashtags",
     platform   |-> platform_,
     voice      |-> voice,
     duration   |-> estimate_duration(script_, SpeedPercent(voice_speed))]

(* BrainrotGenerator.process_pdf, stage by stage.                          *)

\* the job calls stage st
Invoke(st) == trace' = Append(trace, st)

\* an error at stage st is caught, logged, and ends the job with None
Fail(st) ==
    /\ Return("None", st)
    /\ caught' = caught \cup {st}
    /\ logged' = logged \cup {st}

\* the KeyError of a missing key leaving process_pdf
KeyErrorUncaught ==
    /\ Return("raised", "config")
    /\ UNCHANGED <<caught, logged>>

\* self.config[key] of a missing key raises KeyError, which the handler of
\* process_pdf (lines 230-233) logs and turns into None
KeyError == Fail("config")

\* validate_pdf
HostedValidate ==
    /\ variant = "hosted" /\ pc = "validate"
    /\ Invoke("validate")
    /\ batch_processed' = Append(batch_processed, batch_i)
    /\ \E is_valid \in BOOLEAN :
          IF is_valid
          THEN pc' = "extract" /\ UNCHANGED <<result, failed_at, caught, logged>>
          ELSE Fail("validate")
    /\ UNCHANGED <<textVars, variant, mainVars, batch_results, batch_outcomes, metaVars,
                   llm_calls, llm_outcome, job_platform, job_k, job_script,
                   job_captions, analysis, audio, video_outcome, files>>

\* extract_text
HostedExtract ==
    /\ variant = "hosted" /\ pc = "extract"
    /\ Invoke("extract")
    /\ \E has_text \in BOOLEAN :
          IF has_text
          THEN pc' = "summarize" /\ UNCHANGED <<result, failed_at, caught, logged>>
          ELSE Fail("extract")
    /\ UNCHANGED <<textVars, variant, mainVars, batchHistory, metaVars,
                   llm_calls, llm_outcome, job_platform, job_k, job_script,
                   job_captions, analysis, audio, video_outcome, files>>

\* platform = platform or self.config['platform'], max_duration =
\* self.config['max_duration'], then one attempt of the retrying
\* generate_summary: the wrapper calls the body again only when the body
\* raised and fewer than stop_after_attempt attempts were made; a body that
\* returns ends the call
HostedSummarize ==
    /\ variant = "hosted" /\ pc = "summarize"
    /\ IF \/ args.platform = "None" /\ "platform" \notin DOMAIN config
          \/ "max_duration" \notin DOMAIN config
       THEN /\ KeyError
            /\ UNCHANGED <<llm_calls, llm_outcome, job_platform, job_script, trace>>
       ELSE
        /\ job_platform' = IF args.platform # "None" THEN args.platform
                           ELSE config["platform"]
        /\ trace' = IF llm_calls = 0 THEN Append(trace, "summarize") ELSE trace
        /\ \E outcome \in LLMOutcomes, content_script \in JobScripts :
            LET r == SummaryBody(outcome)
            IN  /\ llm_calls' = llm_calls + 1
                /\ llm_outcome' = outcome
                /\ IF r.raised
                   THEN IF llm_calls + 1 >= stop_after_attempt
                        THEN Fail("summarize") /\ UNCHANGED job_script
                        ELSE UNCHANGED <<pc, result, failed_at, job_script,
                                         caught, logged>>
                   ELSE IF r.value = "None"
                        THEN Fail("summarize") /\ UNCHANGED job_script
                        ELSE /\ job_script' = content_script
                             /\ pc' = "optimize"
                             /\ UNCHANGED <<result, failed_at, caught, logged>>
    /\ UNCHANGED <<textVars, variant, mainVars, batchHistory, metaVars, job_k, job_captions,
                   analysis, audio, video_outcome, files>>

HostedOptimize ==
    /\ variant = "hosted" /\ pc = "optimize"
    /\ Invoke("optimize")
    /\ job_script' = optimize_for_platform(job_script, job_platform)
    /\ pc' = "captions"
    /\ UNCHANGED <<textVars, variant, mainVars, batchHistory, metaVars,
                   llm_calls, llm_outcome, job_platform, job_k,
                   job_captions, analysis, audio, video_outcome, files,
                   failed_at, result, caught, logged>>

\* generate_captions(script, words_per_caption=self.config[...])
HostedCaptions ==
    /\ variant = "hosted" /\ pc = "captions"
    /\ IF "words_per_caption" \notin DOMAIN config
       THEN KeyError /\ UNCHANGED <<job_k, job_captions, trace>>
       ELSE /\ Invoke("captions")
            /\ job_k' = WordsPerCaption(config["words_per_caption"])
            /\ job_captions' = generate_captions(job_script,
                                   WordsPerCaption(config["words_per_caption"]))
            /\ pc' = "audio"
            /\ UNCHANGED <<failed_at, result, caught, logged>>
    /\ UNCHANGED <<textVars, variant, mainVars, batchHistory, metaVars,
                   llm_calls, llm_outcome, job_platform,
                   job_script, analysis, audio, video_outcome, files>>

\* voice = voice or self.config['voice'], voice_speed =
\* self.config['voice_speed'], then voice_generator.generate_audio
HostedAudio ==
    /\ variant = "hosted" /\ pc = "audio"
    /\ IF \/ args.voice = "None" /\ "voice" \notin DOMAIN config
          \/ "voice_speed" \notin DOMAIN config
       THEN KeyError /\ UNCHANGED <<audio, trace, job_voice>>
       ELSE /\ Invoke("audio")
            /\ job_voice' = IF args.voice # "None" THEN args.voice
                            ELSE config["voice"]
            /\ \E generated \in BOOLEAN :
                  IF generated
                  THEN /\ audio' = "present"
                       /\ pc' = "video"
                       /\ UNCHANGED <<result, failed_at, caught, logged>>
                  ELSE Fail("audio") /\ UNCHANGED audio
    /\ UNCHANGED <<textVars, variant, mainVars, batchHistory, sidecar,
                   llm_calls, llm_outcome, job_platform, job_k, job_script,
                   job_captions, analysis, video_outcome, files>>

\* process_pdf going on to the cleanup after a failed create_video
HostedVideoNoReturn ==
    /\ variant = "hosted" /\ pc = "video"
    /\ Invoke("video")
    /\ \E outcome \in {"written", "no_background", "encode_error"} :
          LET r == HostedCreateVideo(outcome)
          IN  /\ video_outcome' = outcome
              /\ files' = files \cup r.written
              /\ pc' = "cleanup"
              /\ IF r.value = "None"
                 THEN /\ result' = "None"
                      /\ failed_at' = "video"
                      /\ caught' = caught \cup {"video"}
                      /\ logged' = logged \cup {"video"}
                 ELSE UNCHANGED <<result, failed_at, caught, logged>>
    /\ UNCHANGED <<textVars, variant, mainVars, batchHistory, metaVars,
                   llm_calls, llm_outcome, job_platform, job_k, job_script,
                   job_captions, analysis, audio>>

\* video_assembler.create_video and the test of its result, which returns
\* None without cleaning up
HostedVideo ==
    /\ variant = "hosted" /\ pc = "video"
    /\ Invoke("video")
    /\ \E outcome \in {"written", "no_background", "encode_error"} :
          LET r == HostedCreateVideo(outcome)
          IN  /\ video_outcome' = outcome
              /\ files' = files \cup r.written
              /\ IF r.value = "None"
                 THEN Fail("video")
                 ELSE pc' = "cleanup" /\ UNCHANGED <<result, failed_at, caught, logged>>
    /\ UNCHANGED <<textVars, variant, mainVars, batchHistory, metaVars,
                   llm_calls, llm_outcome, job_platform, job_k, job_script,
                   job_captions, analysis, audio>>

\* _cleanup_temp_files passing over a failed deletion in silence
HostedCleanupSilent ==
    /\ variant = "hosted" /\ pc = "cleanup"
    /\ Invoke("cleanup")
    /\ \E deleted \in BOOLEAN :
          IF deleted
          THEN audio' = "deleted" /\ UNCHANGED caught
          ELSE caught' = caught \cup {"cleanup"} /\ UNCHANGED audio
    /\ pc' = "metadata"
    /\ UNCHANGED <<textVars, variant, mainVars, batchHistory, metaVars,
                   llm_calls, llm_outcome, job_platform, job_k, job_script,
                   job_captions, analysis, video_outcome, files, failed_at, result,
                   logged>>

\* _cleanup_temp_files: a failed deletion is logged and ignored
HostedCleanup ==
    /\ variant = "hosted" /\ pc = "cleanup"
    /\ Invoke("cleanup")
    /\ \E deleted \in BOOLEAN :
          IF deleted
          THEN audio' = "deleted" /\ UNCHANGED <<caught, logged>>
          ELSE /\ caught' = caught \cup {"cleanup"}
               /\ logged' = logged \cup {"cleanup"}
               /\ UNCHANGED audio
    /\ pc' = "metadata"
    /\ UNCHANGED <<textVars, variant, mainVars, batchHistory, metaVars,
                   llm_calls, llm_outcome, job_platform, job_k, job_script,
                   job_captions, analysis, video_outcome, files, failed_at, result>>

\* _save_metadata, whose failure is logged and ignored, then return video_path
HostedMetadata ==
    /\ variant = "hosted" /\ pc = "metadata"
    /\ Invoke("metadata")
    /\ \E saved \in BOOLEAN :
          IF saved
          THEN /\ files' = files \cup {"metadata"}
               /\ sidecar' = [path |-> with_suffix(<<"video", ".mp4">>, ".json"),
                              data |-> Metadata(batch_i, job_script, job_platform,
                                                job_voice, config["voice_speed"])]
               /\ UNCHANGED <<caught, logged>>
          ELSE /\ caught' = caught \cup {"metadata"}
               /\ logged' = logged \cup {"metadata"}
               /\ UNCHANGED <<files, sidecar>>
    /\ Return("video", "none")
    /\ UNCHANGED <<textVars, variant, mainVars, batchHistory, job_voice,
                   llm_calls, llm_outcome, job_platform, job_k, job_script,
                   job_captions, analysis, audio, video_outcome>>

(* BrainrotPipeline.process_paper, agent by agent.                         *)

\* an exception nothing catches leaves process_paper
Raise(st) == Return("raised", st) /\ UNCHANGED <<caught, logged>>

\* PDFAgent.extract_content: fitz.open may raise, and nothing catches it
LocalExtract ==
    /\ variant = "local" /\ pc = "extract"
    /\ Invoke("extract")
    /\ \E opened \in BOOLEAN :
          IF opened
          THEN pc' = "analyze" /\ UNCHANGED <<result, failed_at, caught, logged>>
          ELSE Raise("extract")
    /\ UNCHANGED <<textVars, variant, mainVars, batchHistory, metaVars,
                   llm_calls, llm_outcome, job_platform, job_k, job_script,
                   job_captions, analysis, audio, video_outcome, files>>

\* AnalysisAgent.analyze_paper: any failure of the request falls back to the
\* rule-based analysis under a bare except that reports nothing
LocalAnalyze ==
    /\ variant = "local" /\ pc = "analyze"
    /\ Invoke("analyze")
    /\ \E answered \in BOOLEAN :
          IF answered
          THEN analysis' = "llm" /\ UNCHANGED caught
          ELSE analysis' = "fallback" /\ caught' = caught \cup {"analyze"}
    /\ pc' = "script"
    /\ UNCHANGED <<textVars, variant, mainVars, batchHistory, metaVars,
                   llm_calls, llm_outcome, job_platform, job_k, job_script,
                   job_captions, audio, video_outcome, files, failed_at, result,
                   logged>>

\* ScriptAgent.generate_script
LocalScript ==
    /\ variant = "local" /\ pc = "script"
    /\ Invoke("script")
    /\ \E text \in JobScripts \ {<<>>} : job_script' = text
    /\ pc' = "audio"
    /\ UNCHANGED <<textVars, variant, mainVars, batchHistory, metaVars,
                   llm_calls, llm_outcome, job_platform, job_k,
                   job_captions, analysis, audio, video_outcome, files,
                   failed_at, result, caught, logged>>

\* VideoAgent._generate_audio: silent audio by the encoder, the minimal WAV
\* when the encoder exits with an error, which is printed; any other
\* exception propagates
LocalAudio ==
    /\ variant = "local" /\ pc = "audio"
    /\ Invoke("audio")
    /\ \E outcome \in {"written", "process_error", "os_error"} :
          CASE outcome = "os_error" -> Raise("audio") /\ UNCHANGED audio
            [] outcome = "process_error" ->
                  /\ audio' = "present"
                  /\ pc' = "video"
                  /\ caught' = caught \cup {"audio"}
                  /\ logged' = logged \cup {"audio"}
                  /\ UNCHANGED <<result, failed_at>>
            [] outcome = "written" ->
                  /\ audio' = "present"
                  /\ pc' = "video"
                  /\ UNCHANGED <<result, failed_at, caught, logged>>
    /\ UNCHANGED <<textVars, variant, mainVars, batchHistory, metaVars,
                   llm_calls, llm_outcome, job_platform, job_k, job_script,
                   job_captions, analysis, video_outcome, files>>

\* VideoAgent._create_video_with_text, whose result process_paper returns
LocalVideo ==
    /\ variant = "local" /\ pc = "video"
    /\ Invoke("video")
    /\ \E outcome \in {"written", "process_error", "os_error"}, writable \in BOOLEAN :
          LET r == LocalCreateVideoWithText(outcome, writable)
          IN  /\ video_outcome' = IF outcome = "process_error" /\ ~writable
                                  THEN "process_error_unwritable" ELSE outcome
              /\ files' = files \cup r.written
              /\ Return(r.value, IF r.value = "video" THEN "none" ELSE "video")
              /\ IF outcome = "process_error"
                 THEN /\ caught' = caught \cup {"video"}
                      /\ logged' = logged \cup {"video"}
                 ELSE UNCHANGED <<caught, logged>>
    /\ UNCHANGED <<textVars, variant, mainVars, batchHistory, metaVars,
                   llm_calls, llm_outcome, job_platform, job_k, job_script,
                   job_captions, analysis, audio>>

(* What the caller of a job does with its result.                          *)

\* every per-job field is as before the first job
ResetJob ==
    /\ llm_calls' = 0
    /\ llm_outcome' = "none"
    /\ job_platform' = "None"
    /\ job_k' = 0
    /\ job_script' = <<>>
    /\ job_captions' = <<>>
    /\ analysis' = "none"
    /\ audio' = "absent"
    /\ video_outcome' = "none"
    /\ files' = {}
    /\ failed_at' = "none"
    /\ result' = "pending"
    /\ job_voice' = "None"
    /\ sidecar' = <<>>
    /\ trace' = <<>>
    /\ caught' = {}
    /\ logged' = {}

\* main() looking at the result of process_pdf
HostedSingleReturnChecked ==
    /\ variant = "hosted" /\ pc = "done" /\ mode = "single"
    /\ batch_outcomes' = Append(batch_outcomes, result)
    /\ exit_status' = IF result = "None" THEN 1 ELSE 0
    /\ pc' = "exit"
    /\ UNCHANGED <<textVars, variant, startup, mode, cfg_source, file_keys, config,
                   args, batch_n, batch_i, batch_results, batch_processed,
                   jobFields>>

\* main() of the hosted variant after generator.process_pdf(...), whose
\* result it does not look at
HostedSingleReturn ==
    /\ variant = "hosted" /\ pc = "done" /\ mode = "single"
    /\ batch_outcomes' = Append(batch_outcomes, result)
    /\ exit_status' = 0
    /\ pc' = "exit"
    /\ UNCHANGED <<textVars, variant, startup, mode, cfg_source, file_keys, config,
                   args, batch_n, batch_i, batch_results, batch_processed,
                   jobFields>>

\* batch_process leaving the loop at the first failed job
BatchNextStopOnFailure ==
    /\ variant = "hosted" /\ pc = "done" /\ mode = "batch"
    /\ batch_outcomes' = Append(batch_outcomes, result)
    /\ batch_results' = IF result # "None" THEN Append(batch_results, batch_i)
                        ELSE batch_results
    /\ IF batch_i < batch_n /\ result # "None"
       THEN /\ batch_i' = batch_i + 1
            /\ pc' = "validate"
            /\ ResetJob
            /\ UNCHANGED exit_status
       ELSE /\ exit_status' = 0
            /\ pc' = "exit"
            /\ UNCHANGED <<batch_i, jobFields>>
    /\ UNCHANGED <<textVars, variant, startup, mode, cfg_source, file_keys, config,
                   args, batch_n, batch_processed>>

\* batch_process: the end of one turn of the loop over pdf_files, and the
\* return to main() after the last one
BatchNext ==
    /\ variant = "hosted" /\ pc = "done" /\ mode = "batch"
    /\ batch_outcomes' = Append(batch_outcomes, result)
    /\ batch_results' = IF result # "None" THEN Append(batch_results, batch_i)
                        ELSE batch_results
    /\ IF batch_i < batch_n
       THEN /\ batch_i' = batch_i + 1
            /\ pc' = "validate"
            /\ ResetJob
            /\ UNCHANGED exit_status
       ELSE /\ exit_status' = 0
            /\ pc' = "exit"
            /\ UNCHANGED <<batch_i, jobFields>>
    /\ UNCHANGED <<textVars, variant, startup, mode, cfg_source, file_keys, config,
                   args, batch_n, batch_processed>>

\* main() of the local variant after pipeline.process_paper(...): an
\* exception that left process_paper ends the interpreter with status 1
LocalReturn ==
    /\ variant = "local" /\ pc = "done"
    /\ exit_status' = IF result = "raised" THEN 1 ELSE 0
    /\ pc' = "exit"
    /\ UNCHANGED <<textVars, variant, startup, mode, cfg_source, file_keys, config,
                   args, batch_n, batch_i, batchHistory, jobFields>>

Next ==
    \/ HostedMain
    \/ LocalMain
    \/ HostedValidate
    \/ HostedExtract
    \/ HostedSummarize
    \/ HostedOptimize
    \/ HostedCaptions
    \/ HostedAudio
    \/ HostedVideo
    \/ HostedCleanup
    \/ HostedMetadata
    \/ HostedSingleReturn
    \/ BatchNext
    \/ LocalExtract
    \/ LocalAnalyze
    \/ LocalScript
    \/ LocalAudio
    \/ LocalVideo
    \/ LocalReturn

Spec == InitJob /\ [][Next]_vars

-----------------------------------------------------------------------------
(* VideoAgent._create_video_with_text: the text written when the encoder   *)
(* fails.  A file is the sequence of the strings written to it; a          *)
(* formatted line is the tuple of its parts.                               *)

\* the most visual cues of a script drawn for the harness
MaxCues == 2

\* "duration": 90 of generate_script
generated_duration == 90

\* the visual_cues of generate_script
GeneratedCues ==
    <<"brain explosion with fire effects",
      "confused scientist with question marks",
      "galaxy brain expanding sequence",
      "data charts flying everywhere",
      "mind blown reaction compilation",
      "rocket launch with rainbow trail",
      "laboratory equipment dancing",
      "brain emoji rain finale">>

\* what ScriptAgent.generate_script returns for the narration `text`
generate_script(text) ==
    [script      |-> text,
     duration    |-> generated_duration,
     visual_cues |-> GeneratedCues,
     style       |-> "detailed_brainrot"]

\* output_path.replace('.mp4', '_detailed_script.txt'), a path being its
\* stem and its suffix
FallbackPath(output_path) ==
    IF output_path[2] = ".mp4" THEN <<output_path[1], "_detailed_script.txt">>
    ELSE output_path

\* the cue lines numbered from 0
CueLinesFromZero(cues) == [i \in 1..Len(cues) |-> <<i - 1, ". ", cues[i]>>]

\* for i, cue in enumerate(visual_cues, 1): f"{i}. {cue}\n"
CueLines(cues) == [i \in 1..Len(cues) |-> <<i, ". ", cues[i]>>]

\* the writes of lines 309-317, with duration = script.get('duration', 90)
FallbackText(script_) ==
    << <<"BRAINROT RESEARCH VIDEO SCRIPT">>,
       <<"=" >>,
       script_.script,
       <<"=" >>,
       <<"Duration: ", script_.duration, " seconds">>,
       <<"Style: ", script_.style>>,
       <<"Visual Cues:">> >>
    \o CueLines(script_.visual_cues)

\* _create_video_with_text: what it returns and what it leaves on disk
create_video_with_text(script_, output_path, outcome, writable) ==
    LET r == LocalCreateVideoWithText(outcome, writable)
    IN  [raised  |-> r.raised,
         path    |-> CASE r.value = "video" -> output_path
                       [] r.value = "script_txt" -> FallbackPath(output_path)
                       [] OTHER -> <<>>,
         written |-> r.written,
         text    |-> IF "script_txt" \in r.written
                     THEN FallbackText(script_) ELSE <<>>]

CueNames == {"cue a", "cue b"}

\* the scripts handed to the local encoder: the generated ones, and ones
\* with another duration and a short cue list
FallbackScripts ==
    {generate_script(text) : text \in JobScripts \ {<<>>}}
    \cup [script      : JobScripts \ {<<>>},
          duration    : {30, generated_duration},
          visual_cues : UNION {[1..n -> CueNames] : n \in 0..MaxCues},
          style       : {"detailed_brainrot"}]

InitFallback ==
    /\ script = <<>>
    /\ platform = "tiktok"
    /\ words_per_caption = 5
    /\ called = "none"
    /\ ret = <<>>
    /\ ClipIdleSizes
    /\ request \in [script : FallbackScripts,
                     outcome : {"written", "process_error", "os_error"},
                     writable : BOOLEAN]
    /\ JobIdle

CallCreateVideoWithText ==
    /\ called = "none"
    /\ ret' = create_video_with_text(request.script,
                                     <<"output/brainrot_video", ".mp4">>,
                                     request.outcome, request.writable)
    /\ called' = "_create_video_with_text"
    /\ UNCHANGED <<script, platform, words_per_caption, clipVars, request, jobVars>>

NextFallback == CallCreateVideoWithText

SpecFallback == InitFallback /\ [][NextFallback]_vars

-----------------------------------------------------------------------------
(* PDFProcessor.validate_pdf                                               *)

\* if file_size_mb > 50
max_file_mb == 50

\* len(first_page_text.strip()) < 10
min_text_chars == 10

BytesPerMB == 1024 * 1024

\* str.lower, on the letters a suffix is drawn from
Lower(c) ==
    CASE c = "P" -> "p"
      [] c = "D" -> "d"
      [] c = "F" -> "f"
      [] OTHER   -> c

lower(s) == [i \in 1..Len(s) |-> Lower(s[i])]

RECURSIVE lstrip(_)
lstrip(s) ==
    IF s # <<>> /\ s[1] \in Whitespace THEN lstrip(Tail(s)) ELSE s

RECURSIVE rstrip(_)
rstrip(s) ==
    IF s # <<>> /\ s[Len(s)] \in Whitespace
    THEN rstrip(SubSeq(s, 1, Len(s) - 1))
    ELSE s

\* str.strip
strip(s) == rstrip(lstrip(s))

\* f"{file_size_mb:.1f}": the tenths of a megabyte nearest to st_size bytes,
\* ties to the even tenth; st_size / (1024 * 1024) is exact
TenthsOfMB(st_size) ==
    LET q == (st_size * 10) \div BytesPerMB
        r == (st_size * 10) % BytesPerMB
    IN  IF 2 * r > BytesPerMB \/ (2 * r = BytesPerMB /\ q % 2 = 1)
        THEN q + 1
        ELSE q

ErrorValidating(e) == <<FALSE, <<"Error validating PDF: ", e>>>>

\* the checks with the size tested before the suffix
ValidatePdfSizeFirst(f) ==
    IF ~f.exists THEN <<FALSE, <<"File does not exist">>>>
    ELSE IF f.raises = "stat" THEN ErrorValidating("stat")
    ELSE IF f.st_size > max_file_mb * BytesPerMB
    THEN <<FALSE, <<"File too large (", TenthsOfMB(f.st_size), "MB > 50MB)">>>>
    ELSE IF lower(f.suffix) # <<".", "p", "d", "f">>
    THEN <<FALSE, <<"File is not a PDF">>>>
    ELSE IF f.raises = "open" THEN ErrorValidating("open")
    ELSE IF f.pages = 0 THEN <<FALSE, <<"PDF has no pages">>>>
    ELSE IF f.raises = "extract_text" THEN ErrorValidating("extract_text")
    ELSE IF f.text = <<"None">> \/ f.text = <<>>
            \/ Len(strip(f.text)) < min_text_chars
    THEN <<FALSE, <<"PDF appears to be image-only or has no extractable text">>>>
    ELSE <<TRUE, <<"PDF is valid">>>>

\* lines 109-136, on the file f: whether it exists, its suffix, its size,
\* its number of pages, the text of its first page (<<"None">> for None),
\* and which of stat, pdfplumber.open and extract_text raises when reached
validate_pdf(f) ==
    IF ~f.exists THEN <<FALSE, <<"File does not exist">>>>
    ELSE IF lower(f.suffix) # <<".", "p", "d", "f">>
    THEN <<FALSE, <<"File is not a PDF">>>>
    ELSE IF f.raises = "stat" THEN ErrorValidating("stat")
    ELSE IF f.st_size > max_file_mb * BytesPerMB
    THEN <<FALSE, <<"File too large (", TenthsOfMB(f.st_size), "MB > 50MB)">>>>
    ELSE IF f.raises = "open" THEN ErrorValidating("open")
    ELSE IF f.pages = 0 THEN <<FALSE, <<"PDF has no pages">>>>
    ELSE IF f.raises = "extract_text" THEN ErrorValidating("extract_text")
    ELSE IF f.text = <<"None">> \/ f.text = <<>>
            \/ Len(strip(f.text)) < min_text_chars
    THEN <<FALSE, <<"PDF appears to be image-only or has no extractable text">>>>
    ELSE <<TRUE, <<"PDF is valid">>>>

(* Validation harness: one call of validate_pdf on a drawn file.           *)

Suffixes ==
    {<<".", "p", "d", "f">>, <<".", "P", "D", "F">>, <<".", "P", "d", "f">>,
     <<".", "t", "x", "t">>, <<".", "p", "d">>, <<>>}

\* `lead` blanks, n characters with a blank inside, `trail` blanks
PageText(lead, n, trail) ==
    [i \in 1..lead |-> " "]
    \o [i \in 1..n |-> IF i = 2 /\ n > 2 THEN " " ELSE "a"]
    \o [i \in 1..trail |-> "\n"]

PageTexts ==
    {<<"None">>}
    \cup {PageText(lead, n, trail) :
             lead \in 0..1, trail \in 0..1,
             n \in {0, min_text_chars - 1, min_text_chars, min_text_chars + 1}}

\* around the limit, and 50.25 MB, half way between two tenths
FileSizes ==
    {0, max_file_mb * BytesPerMB - 1, max_file_mb * BytesPerMB,
     max_file_mb * BytesPerMB + 1, max_file_mb * BytesPerMB + BytesPerMB \div 4}

InitValidate ==
    /\ script = <<>>
    /\ platform = "tiktok"
    /\ words_per_caption = 5
    /\ called = "none"
    /\ ret = <<>>
    /\ ClipIdleSizes
    /\ request \in [exists  : BOOLEAN,
                     suffix  : Suffixes,
                     st_size : FileSizes,
                     pages   : 0..2,
                     text    : PageTexts,
                     raises  : {"none", "stat", "open", "extract_text"}]
    /\ JobIdle

CallValidatePdf ==
    /\ called = "none"
    /\ ret' = validate_pdf(request)
    /\ called' = "validate_pdf"
    /\ UNCHANGED <<script, platform, words_per_caption, clipVars, request, jobVars>>

NextValidate == CallValidatePdf

SpecValidate == InitValidate /\ [][NextValidate]_vars

-----------------------------------------------------------------------------
(* VoiceGenerator.generate_audio: the parameters of the TTS request.       *)

\* a speed the caller passes: a float, which is a number (in hundredths), an
\* infinity or nan, or a value that is no number at all
Number(x) == [kind |-> "number", v |-> x]

Infinity == [kind |-> "inf", v |-> 0]

MinusInfinity == [kind |-> "-inf", v |-> 0]

NaN == [kind |-> "nan", v |-> 0]

NotANumber == [kind |-> "str", v |-> 0]

\* a < b for floats; every comparison with nan is false
Less(a, b) ==
    IF a.kind = "nan" \/ b.kind = "nan" THEN FALSE
    ELSE IF a.kind = "-inf" THEN b.kind # "-inf"
    ELSE IF a.kind = "inf" THEN FALSE
    ELSE IF b.kind = "inf" THEN TRUE
    ELSE IF b.kind = "-inf" THEN FALSE
    ELSE a.v < b.v

\* the builtins min and max of two arguments, which return the first unless
\* the second compares smaller, or larger
min(a, b) == IF Less(b, a) THEN b ELSE a

max(a, b) == IF Less(a, b) THEN b ELSE a

\* 0.25 and 4.0
min_speed == Number(25)

max_speed == Number(400)

valid_voices == {"alloy", "echo", "fable", "onyx", "nova", "shimmer"}

\* lines 87-123: the request made of the service, if one is made, the
\* warnings logged and the value returned; comparing a speed that is no
\* number raises TypeError, which the handler turns into None
generate_audio(voice, speed, service) ==
    IF speed.kind = "str"
    THEN [sent |-> <<>>, warned |-> {}, value |-> <<"None">>]
    ELSE LET adjust == Less(speed, min_speed) \/ Less(max_speed, speed)
             invalid == voice \notin valid_voices
         IN  [sent   |-> <<[model |-> "tts-1-hd",
                            voice |-> IF invalid THEN "nova" ELSE voice,
                            speed |-> IF adjust
                                      THEN max(min_speed, min(max_speed, speed))
                                      ELSE speed]>>,
              warned |-> (IF adjust THEN {"speed"} ELSE {})
                         \cup (IF invalid THEN {"voice"} ELSE {}),
              value  |-> IF service = "ok"
                         THEN <<"narration", ".mp3">>
                         ELSE <<"None">>]

(* Narration harness: one call of generate_audio with drawn parameters.    *)

Speeds ==
    {Number(x) : x \in {-100, 0, 24, 25, 26, 100, 399, 400, 401, 1000}}
    \cup {Infinity, MinusInfinity, NaN, NotANumber}

Voices == valid_voices \cup {"Nova", "robot", "None"}

InitNarration ==
    /\ script = <<>>
    /\ platform = "tiktok"
    /\ words_per_caption = 5
    /\ called = "none"
    /\ ret = <<>>
    /\ ClipIdleSizes
    /\ request \in [voice : Voices, speed : Speeds, service : {"ok", "raises"}]
    /\ JobIdle

CallGenerateNarration ==
    /\ called = "none"
    /\ ret' = generate_audio(request.voice, request.speed, request.service)
    /\ called' = "generate_audio"
    /\ UNCHANGED <<script, platform, words_per_caption, clipVars, request, jobVars>>

NextNarration == CallGenerateNarration

SpecNarration == InitNarration /\ [][NextNarration]_vars

-----------------------------------------------------------------------------
(* VideoAgent._generate_audio: the narration file of the local variant.    *)

\* anullsrc=...:duration=30
anullsrc_duration == 30

\* silence = b'\x00\x00' * 44100 * 30 * 2
minimal_wav_seconds == 30

\* temp_tts.stat().st_size > 1000
min_tts_bytes == 1000

NarrationPath(output_dir) == <<output_dir \o "/narration", ".wav">>

\* the TTS file taking the place of the narration whatever its size
TryAddTtsAnySize(present, os_name, tts, size) ==
    IF os_name = "nt" /\ tts = "file"
    THEN [file |-> <<"tts">>, printed |-> <<"Added TTS narration">>]
    ELSE [file |-> present, printed |-> <<>>]

\* _try_add_tts (lines 244-258): only under os.name == 'nt'; the engine
\* raises (import, init or save), writes no file, or writes one of `size`
\* bytes, which replaces the narration when larger than 1000 bytes
try_add_tts(present, os_name, tts, size) ==
    IF os_name # "nt" THEN [file |-> present, printed |-> <<>>]
    ELSE CASE tts = "raises"  ->
                [file |-> present, printed |-> <<"TTS failed, using silent audio">>]
           [] tts = "no_file" -> [file |-> present, printed |-> <<>>]
           [] tts = "file"    ->
                IF size > min_tts_bytes
                THEN [file |-> <<"tts">>, printed |-> <<"Added TTS narration">>]
                ELSE [file |-> present, printed |-> <<>>]

\* _create_minimal_wav (lines 260-271): wave.open for writing raises when the
\* file cannot be created
create_minimal_wav(writable) ==
    IF writable
    THEN [raised |-> FALSE, file |-> <<"minimal", minimal_wav_seconds>>,
          printed |-> <<"Created minimal WAV fallback">>]
    ELSE [raised |-> TRUE, file |-> <<>>, printed |-> <<>>]

\* _generate_audio (lines 214-242); the handler catches the encoder's
\* CalledProcessError only, and nothing catches what its own body raises
generate_local_audio(output_dir, r) ==
    CASE r.encoder = "ok" ->
            LET t == try_add_tts(<<"silent", anullsrc_duration>>, r.os_name, r.tts, r.size)
            IN  [value   |-> NarrationPath(output_dir),
                 file    |-> t.file,
                 printed |-> <<"Created compatible audio file">> \o t.printed]
      [] r.encoder = "process_error" ->
            LET w == create_minimal_wav(r.writable)
            IN  [value   |-> IF w.raised THEN <<"raised">> ELSE NarrationPath(output_dir),
                 file    |-> w.file,
                 printed |-> <<"FFmpeg audio creation failed">> \o w.printed]
      [] r.encoder = "os_error" ->
            [value |-> <<"raised">>, file |-> <<>>, printed |-> <<>>]

(* Audio harness: one call of _generate_audio in a drawn environment.      *)

TtsSizes == {0, min_tts_bytes - 1, min_tts_bytes, min_tts_bytes + 1}

InitAudio ==
    /\ script = <<>>
    /\ platform = "tiktok"
    /\ words_per_caption = 5
    /\ called = "none"
    /\ ret = <<>>
    /\ ClipIdleSizes
    /\ request \in [encoder  : {"ok", "process_error", "os_error"},
                     os_name  : {"nt", "posix"},
                     tts      : {"raises", "no_file", "file"},
                     size     : TtsSizes,
                     writable : BOOLEAN]
    /\ JobIdle

CallGenerateAudio ==
    /\ called = "none"
    /\ ret' = generate_local_audio("output", request)
    /\ called' = "_generate_audio"
    /\ UNCHANGED <<script, platform, words_per_caption, clipVars, request, jobVars>>

NextAudio == CallGenerateAudio

SpecAudio == InitAudio /\ [][NextAudio]_vars

-----------------------------------------------------------------------------
(* Properties of the job pipelines (under Spec).                           *)

JobDone == pc = "done"

\* C2: a summarization call that fails (the request raises or the response
\* cannot be parsed) is retried: the job is given up only after 3 requests,
\* and never more than 3 are sent.
C2_SummaryRetriedThreeTimes ==
    /\ llm_calls <= 3
    /\ (JobDone /\ failed_at = "summarize"
            /\ llm_outcome \in {"request_raises", "bad_json"})
          => llm_calls = 3

\* C3 as stated: in both variants a failed encoding leaves the job with a
\* text script written in place of the video, and the job not aborted.
C3_FallbackInBothVariants ==
    (JobDone /\ video_outcome \in {"encode_error", "process_error"})
        => /\ "script_txt" \in files
           /\ result \notin {"None", "raised"}

\* C3, amended: in the local variant an encoder process that exits with an
\* error is answered by writing the text script in place of the video and
\* returning its path; in the hosted variant a failed encoding ends the job
\* with None and no text script.
C3_FallbackInLocalVariantOnly ==
    /\ (JobDone /\ variant = "local" /\ video_outcome = "process_error")
          => /\ result = "script_txt"
             /\ "script_txt" \in files
             /\ "video" \notin files
    /\ (JobDone /\ variant = "hosted" /\ video_outcome = "encode_error")
          => /\ result = "None"
             /\ "script_txt" \notin files

\* a local job whose encoder failed has ended with the text script
C3_Witness ==
    /\ JobDone
    /\ variant = "local"
    /\ video_outcome = "process_error"
    /\ result = "script_txt"

-----------------------------------------------------------------------------
(* Properties of the command line and of batch mode (under Spec).          *)

Exited == pc = "exit"

\* the job or jobs of the command line were started
Ran == startup = "ran"

\* <<1, ..., n>>
Indexes(n) == [i \in 1..n |-> i]

IsSuccess(i) == batch_outcomes[i] # "None"

\* C11: in batch mode process_pdf is called on the inputs in the given
\* order, each once, the next only after the previous call has returned; a
\* failed job does not end the batch, and when the batch is over every input
\* has been processed and the returned list holds exactly the successful
\* inputs, in input order.
C11_BatchProcessesEveryInput ==
    (variant = "hosted" /\ mode = "batch" /\ Ran) =>
        /\ batch_processed = Indexes(Len(batch_processed))
        /\ Len(batch_processed) <= batch_n
        /\ Len(batch_outcomes) <= Len(batch_processed)
        /\ Len(batch_processed) <= Len(batch_outcomes) + 1
        /\ Exited =>
              /\ batch_processed = Indexes(batch_n)
              /\ Len(batch_outcomes) = batch_n
              /\ batch_results = SelectSeq(Indexes(batch_n), IsSuccess)

\* a batch whose first job failed and whose second job succeeded is over
C11_Witness ==
    /\ Exited /\ mode = "batch" /\ Ran
    /\ batch_n >= 2
    /\ batch_outcomes[1] = "None"
    /\ batch_outcomes[2] = "video"
    /\ batch_results = <<2>>

\* the input of a single-file run was rejected: by validate_pdf in the hosted
\* variant; in the local variant by the existence test of main() or by
\* fitz.open
InputRejected ==
    /\ mode = "single"
    /\ \/ variant = "hosted" /\ Ran /\ failed_at = "validate"
       \/ variant = "local" /\ startup = "not_found"
       \/ variant = "local" /\ Ran /\ failed_at = "extract"

\* C12 as stated: a single-file run whose input is rejected ends with a
\* non-zero exit status.
C12_RejectedInputExitsNonZero ==
    (Exited /\ InputRejected) => exit_status # 0

\* C13 as stated: the exit status is 1 when no input is given or the
\* initialization fails, and 0 in every other case.
C13_OneOnStartupFailureElseZero ==
    Exited =>
        exit_status = IF startup \in {"no_input", "config_unreadable",
                                      "no_api_key", "init_failed"}
                      THEN 1 ELSE 0

\* C13, amended: the hosted variant exits with 2 when argparse rejects the
\* command line, with 1 when the --config file cannot be loaded, the API key
\* is missing, the constructor raises or no input is given, and with 0 in
\* every other case, failed jobs included; the local variant exits with 1
\* when it is not given exactly one argument, when the file does not exist
\* and when an exception leaves process_paper, and with 0 otherwise.
C13_ExitStatusByVariant ==
    Exited =>
        exit_status =
            IF variant = "hosted"
            THEN CASE startup = "usage_error" -> 2
                   [] startup \in {"no_input", "config_unreadable",
                                   "no_api_key", "init_failed"} -> 1
                   [] OTHER -> 0
            ELSE IF startup \in {"no_input", "not_found"} \/ result = "raised"
                 THEN 1 ELSE 0

\* a hosted single-file run whose job failed has ended with status 0
C13_Witness ==
    /\ Exited /\ variant = "hosted" /\ mode = "single" /\ Ran
    /\ result = "None"
    /\ exit_status = 0

-----------------------------------------------------------------------------
(* Properties of the stages of one job (under Spec).                       *)

\* the stages of process_pdf, in the order of its code
HostedOrder == <<"validate", "extract", "summarize", "optimize", "captions",
                 "audio", "video", "cleanup", "metadata">>

\* the agents of process_paper, in the order of its code
LocalOrder == <<"extract", "analyze", "script", "audio", "video">>

IsPrefix(s, t) == Len(s) <= Len(t) /\ s = SubSeq(t, 1, Len(s))

Stages(s) == {s[i] : i \in 1..Len(s)}

\* the job has ended early
JobFailed == result \in {"None", "raised"}

\* the stage whose call follows the read of self.config that raised
StageAfter(st) ==
    CASE st = "extract"  -> "summarize"
      [] st = "optimize" -> "captions"
      [] st = "captions" -> "audio"
      [] OTHER           -> "none"

\* C14: the stages a job has invoked are always an initial part of the fixed
\* order (validate, extract, summarize, optimize, captions, audio, video,
\* cleanup, metadata in the hosted variant; extract, analyze, script, audio,
\* video in the local one), each invoked once and after the previous one
\* returned; when a stage has reported failure the job is over and that stage
\* is the last one invoked.
C14_StagesInOrder ==
    /\ variant = "hosted" => IsPrefix(trace, HostedOrder)
    /\ variant = "local" => IsPrefix(trace, LocalOrder)
    /\ JobFailed =>
          /\ pc \in {"done", "exit"}
          /\ Len(trace) >= 1
          /\ IF failed_at = "config"
             THEN StageAfter(trace[Len(trace)]) # "none"
             ELSE trace[Len(trace)] = failed_at
    /\ (JobDone /\ ~JobFailed) =>
          trace = IF variant = "hosted" THEN HostedOrder ELSE LocalOrder

\* a hosted job that failed at the narration audio has invoked the first six
\* stages and nothing else
C14_Witness ==
    /\ JobDone /\ variant = "hosted"
    /\ failed_at = "audio"
    /\ trace = SubSeq(HostedOrder, 1, 6)

C16_AudioDeletionAttempted ==
    (variant = "hosted" /\ JobDone /\ audio # "absent")
        => "cleanup" \in Stages(trace)

\* C17: when a config file is supplied, self.config is the defaults
\* overridden key by key by the file, so that every setting the job reads is
\* there and no job fails for a missing setting.
C17_FileMergedOverDefaults ==
    (variant = "hosted" /\ Ran /\ cfg_source # "none") =>
        /\ config = Update(Defaults, FileConfig(file_keys))
        /\ JobKeys \subseteq DOMAIN config
        /\ failed_at # "config"

-----------------------------------------------------------------------------
(* Properties of the background clip (under SpecBackground).               *)

PreparedReturned == called = "_prepare_background"

\* C19: the prepared background lasts exactly as long as the target and
\* starts at time 0 of the source; a source shorter than the target is
\* repeated in n whole copies with n * native >= target, a source at least
\* as long as the target is not repeated; either way there are source frames
\* under the whole of the returned clip.
C19_BackgroundMatchesTarget ==
    PreparedReturned =>
        /\ ret.duration = audio_duration
        /\ ret.start = 0
        /\ ret.content = ret.n_loops * source_clip.duration
        /\ ret.content >= audio_duration
        /\ source_clip.duration < audio_duration => ret.n_loops >= 2
        /\ source_clip.duration >= audio_duration => ret.n_loops = 1

\* a source was repeated and its last copy cut short
C19_Witness ==
    /\ PreparedReturned
    /\ source_clip.duration < audio_duration
    /\ ret.n_loops = 3
    /\ ret.content > ret.duration
    /\ ret.duration = audio_duration

Wide(w, h) == w * AspectH > h * AspectW

Abs(x) == IF x < 0 THEN -x ELSE x

\* C20: a frame wider than 9:16 keeps its height and is cut to the width
\* floor(9h/16), centred horizontally; any other frame keeps its width and
\* is cut to the height floor(16w/9), centred vertically; the cut lies
\* within the frame, and its width over its height is 9/16 up to the one
\* pixel the floor drops.
C20_CropIsNineBySixteen ==
    PreparedReturned =>
        LET w  == source_clip.w
            h  == source_clip.h
            c  == ret.crop
            cw == c.x2 - c.x1
            ch == c.y2 - c.y1
        IN  /\ 0 <= c.x1 /\ c.x1 <= c.x2 /\ c.x2 <= w
            /\ 0 <= c.y1 /\ c.y1 <= c.y2 /\ c.y2 <= h
            /\ IF Wide(w, h)
               THEN /\ ch = h
                    /\ cw = (h * AspectW) \div AspectH
                    /\ Abs(c.x1 - (w - c.x2)) <= 1
                    /\ AspectH * cw <= AspectW * ch
                    /\ AspectW * ch < AspectH * (cw + 1)
               ELSE /\ cw = w
                    /\ ch = (w * AspectH) \div AspectW
                    /\ Abs(c.y1 - (h - c.y2)) <= 1
                    /\ AspectW * ch <= AspectH * cw
                    /\ AspectH * cw < AspectW * (ch + 1)

\* a wide frame was cut with margins that differ by one pixel
C20_Witness ==
    /\ PreparedReturned
    /\ Wide(source_clip.w, source_clip.h)
    /\ ret.crop.y2 - ret.crop.y1 = source_clip.h
    /\ (source_clip.w - ret.crop.x2) = ret.crop.x1 + 1

-----------------------------------------------------------------------------
(* Properties of the composed video (under SpecCompose).                   *)

VideoComposed ==
    /\ called \in {"create_video", "_create_video_with_text"}
    /\ ret.path = "video"

\* C18: the composed video lasts min(background, narration), which is as
\* long as the narration, whatever the captions.
C18_OutputLastsAsLongAsAudio ==
    VideoComposed =>
        /\ ret.duration = Min(ret.background, ret.audio)
        /\ ret.duration = ret.audio

\* C21: when no background is given, the library holds no video and the
\* placeholder cannot be generated, create_video logs the missing background
\* and returns None without having composed, encoded or written anything.
C21_NoBackgroundNoVideo ==
    (called = "create_video" /\ ~request.explicit /\ ~request.library
            /\ ~request.default_ok)
        => /\ ret.path = "None"
           /\ ret.logged = {"No background video available"}
           /\ ~ret.composited
           /\ ~ret.encoded
           /\ ret.written = {}

\* create_video has returned for a job with no background of any kind whose
\* encoder would have worked
C21_Witness ==
    /\ called = "create_video"
    /\ request = [explicit |-> FALSE, library |-> FALSE,
                  default_ok |-> FALSE, encode_ok |-> TRUE]
    /\ ret.path = "None"

-----------------------------------------------------------------------------
(* Properties of the local text fallback (under SpecFallback).             *)

FallbackReturned == called = "_create_video_with_text" /\ request # <<>>

\* the text file holds the script, the duration line, the style tag and the
\* cues numbered from 1 in order
HoldsScript(text, script_) ==
    /\ \E i \in 1..Len(text) : text[i] = script_.script
    /\ \E i \in 1..Len(text) : text[i] = <<"Duration: ", script_.duration, " seconds">>
    /\ \E i \in 1..Len(text) : text[i] = <<"Style: ", script_.style>>
    /\ \E at \in 0..Len(text) :
          /\ at + Len(script_.visual_cues) = Len(text)
          /\ \A i \in 1..Len(script_.visual_cues) :
                text[at + i] = <<i, ". ", script_.visual_cues[i]>>

\* C22 as stated: whenever the encoder call fails, the path of a
\* '_detailed_script.txt' file is returned and that file holds the script,
\* the duration line, the style and the numbered cues.
C22_FallbackOnEveryEncoderFailure ==
    (FallbackReturned /\ request.outcome # "written") =>
        /\ ~ret.raised
        /\ ret.path = <<"output/brainrot_video", "_detailed_script.txt">>
        /\ HoldsScript(ret.text, request.script)

\* C22, amended: when the encoder process exits with an error and the text
\* file can be written, the path ending in '_detailed_script.txt' is
\* returned, no video is written, and the file holds the script text, the
\* line 'Duration: <d> seconds' (d = 90 for a generated script), the style
\* tag and the cues numbered from 1 in order; when the encoder cannot be
\* run at all, or the text file cannot be written, an exception leaves the
\* function and no file is written.
C22_FallbackOnProcessError ==
    FallbackReturned =>
        /\ (request.outcome = "process_error" /\ request.writable) =>
              /\ ~ret.raised
              /\ ret.path = <<"output/brainrot_video", "_detailed_script.txt">>
              /\ ret.written = {"script_txt"}
              /\ HoldsScript(ret.text, request.script)
              /\ request.script \in {generate_script(t) : t \in JobScripts} =>
                    \E i \in 1..Len(ret.text) :
                        ret.text[i] = <<"Duration: ", 90, " seconds">>
        /\ (request.outcome = "os_error"
                \/ (request.outcome = "process_error" /\ ~request.writable)) =>
              /\ ret.raised
              /\ ret.written = {}
        /\ request.outcome = "written" =>
              /\ ret.path = <<"output/brainrot_video", ".mp4">>
              /\ ret.written = {"video"}

\* the encoder exited with an error for a generated script and the text file
\* with its eight cues was returned
C22_Witness ==
    /\ FallbackReturned
    /\ request.outcome = "process_error"
    /\ request.writable
    /\ ~ret.raised
    /\ request.script.visual_cues = GeneratedCues
    /\ ret.path[2] = "_detailed_script.txt"
    /\ Len(ret.text) = 15
    /\ ret.text[15] = <<8, ". ", "brain emoji rain finale">>

\* the keys of the sidecar, as the specification lists them
SidecarKeys == {"source_pdf", "title", "script", "hashtags", "platform",
                "voice", "duration"}

\* C23 as stated: a finished hosted job has left a sidecar exactly when it
\* returned a video path.
C23_SidecarIffSuccess ==
    (variant = "hosted" /\ JobDone) =>
        (result = "video" <=> "metadata" \in files)

\* C23, amended: a hosted job that returns a video path has written, unless
\* the write failed, a sidecar with the stem of the video and the suffix
\* .json holding source PDF, title, script, hashtags, platform, voice and
\* duration of this job; when the write fails the failure is logged, no
\* sidecar is left and the job still returns the video path; a failed job
\* leaves no sidecar.
C23_SidecarUnlessWriteFails ==
    (variant = "hosted" /\ JobDone) =>
        /\ (result = "video" /\ "metadata" \notin caught) =>
              /\ "metadata" \in files
              /\ sidecar.path = <<"video", ".json">>
              /\ DOMAIN sidecar.data = SidecarKeys
              /\ sidecar.data.source_pdf = batch_i
              /\ sidecar.data.script = job_script
              /\ sidecar.data.platform = job_platform
              /\ sidecar.data.voice = job_voice
              /\ sidecar.data.voice =
                    (IF args.voice # "None" THEN args.voice ELSE config["voice"])
              /\ sidecar.data.duration * SpeedPercent(config["voice_speed"])
                    <= Len(Split(job_script)) * 400 * 100
        /\ (result = "video" /\ "metadata" \in caught) =>
              /\ "metadata" \in logged
              /\ "metadata" \notin files
              /\ sidecar = <<>>
        /\ result # "video" =>
              /\ "metadata" \notin files
              /\ sidecar = <<>>

\* a job has returned its video path and left the sidecar of a nine-word
\* script spoken by the voice of the command line
C23_Witness ==
    /\ variant = "hosted" /\ JobDone
    /\ result = "video"
    /\ "metadata" \in files
    /\ sidecar.data.script = FoxScript
    /\ sidecar.data.voice = "onyx"
    /\ sidecar.data.duration = 3600

\* C24: a composed video has one overlay per caption, in caption order,
\* starting at the caption's start and lasting the caption's duration, so
\* that it ends at the caption's end; the caption list is as it was.
C24_OneOverlayPerCaption ==
    (called = "create_video" /\ ret.path = "video") =>
        LET captions == generate_captions(script, words_per_caption)
        IN  /\ Len(ret.overlays) = Len(captions)
            /\ \A i \in 1..Len(captions) :
                  /\ ret.overlays[i].start = captions[i].start
                  /\ ret.overlays[i].duration = captions[i].duration
                  /\ ret.overlays[i].end = captions[i].end
            /\ ret.captions = captions

\* a video with three overlays was composed
C24_Witness ==
    /\ called = "create_video" /\ ret.path = "video"
    /\ Len(ret.overlays) = 3
    /\ ret.overlays[3].start > 0

-----------------------------------------------------------------------------
(* Properties of _generate_audio.                                          *)

AudioReturned == called = "_generate_audio"

\* the narration is the encoder's silence unless a TTS file of more than
\* 1000 bytes took its place
SilentUnlessTts ==
    /\ ret.file \in {<<"silent", 30>>, <<"tts">>}
    /\ ret.file = <<"tts">> <=>
          (request.os_name = "nt" /\ request.tts = "file" /\ request.size > 1000)

\* C28 as stated: whenever the encoder succeeds or fails with a process
\* error, _generate_audio returns the narration.wav path with an audio file
\* there: the encoder's silence, replaced only by a TTS file of more than
\* 1000 bytes, or the minimal 30-second WAV after a failed encoder.
C28_AlwaysAudio ==
    (AudioReturned /\ request.encoder \in {"ok", "process_error"}) =>
        /\ ret.value = <<"output/narration", ".wav">>
        /\ request.encoder = "ok" => SilentUnlessTts
        /\ request.encoder = "process_error" => ret.file = <<"minimal", 30>>

\* C28: the same when the encoder succeeds, and when it fails with a
\* process error and the minimal WAV can be written; when the minimal WAV
\* cannot be written either, _generate_audio raises and leaves no file.
C28_AudioUnlessNothingWritable ==
    AudioReturned =>
        /\ request.encoder = "ok" =>
              /\ ret.value = <<"output/narration", ".wav">>
              /\ SilentUnlessTts
        /\ (request.encoder = "process_error" /\ request.writable) =>
              /\ ret.value = <<"output/narration", ".wav">>
              /\ ret.file = <<"minimal", 30>>
        /\ (request.encoder = "process_error" /\ ~request.writable) =>
              /\ ret.value = <<"raised">>
              /\ ret.file = <<>>

\* the encoder failed and the minimal WAV stands in for the narration
C28_Witness ==
    /\ AudioReturned
    /\ request.encoder = "process_error"
    /\ ret.value = <<"output/narration", ".wav">>
    /\ ret.file = <<"minimal", 30>>

-----------------------------------------------------------------------------
(* Properties of validate_pdf.                                             *)

Validated == called = "validate_pdf"

PdfSuffix ==
    request.suffix \in {<<".", "p", "d", "f">>, <<".", "P", "D", "F">>,
                        <<".", "P", "d", "f">>}

WithinSize == request.st_size <= 50 * 1024 * 1024

\* the characters of the first page's text between its first and its last
\* non-blank character
TrimmedLength ==
    IF request.text = <<"None">> THEN 0
    ELSE LET inked == {i \in 1..Len(request.text) : request.text[i] \notin Whitespace}
         IN  IF inked = {} THEN 0
             ELSE 1 + SetMax(inked) - CHOOSE i \in inked : \A j \in inked : i <= j

\* C29: validate_pdf never raises; it returns (True, ...) only when the file
\* exists, has a .pdf suffix in any case, is at most 50 MB, has a page and
\* its first page gives at least 10 characters of trimmed text; the checks
\* are made in that order, the first that fails giving the message; and an
\* exception while checking gives (False, message).
C29_ValidOnlyAfterAllChecks ==
    Validated =>
        /\ ret[1] \in BOOLEAN
        /\ ret[1] <=>
              /\ request.exists /\ PdfSuffix /\ WithinSize
              /\ request.pages >= 1 /\ TrimmedLength >= 10
              /\ request.raises = "none"
        /\ ~request.exists => ret[2] = <<"File does not exist">>
        /\ (request.exists /\ ~PdfSuffix) => ret[2] = <<"File is not a PDF">>
        /\ (request.exists /\ PdfSuffix /\ request.raises = "stat") =>
              ret = <<FALSE, <<"Error validating PDF: ", "stat">>>>
        /\ (request.exists /\ PdfSuffix /\ request.raises # "stat" /\ ~WithinSize) =>
              /\ ret[2][1] = "File too large ("
              /\ ret[2][2] >= 500
        /\ (request.exists /\ PdfSuffix /\ WithinSize /\ request.raises = "open") =>
              ret = <<FALSE, <<"Error validating PDF: ", "open">>>>
        /\ (request.exists /\ PdfSuffix /\ WithinSize
               /\ request.raises \in {"none", "extract_text"}
               /\ request.pages = 0) =>
              ret[2] = <<"PDF has no pages">>
        /\ (request.exists /\ PdfSuffix /\ WithinSize /\ request.pages >= 1
               /\ request.raises = "extract_text") =>
              ret = <<FALSE, <<"Error validating PDF: ", "extract_text">>>>
        /\ (request.exists /\ PdfSuffix /\ WithinSize /\ request.pages >= 1
               /\ request.raises = "none" /\ TrimmedLength < 10) =>
              ret[2] = <<"PDF appears to be image-only or has no extractable text">>

\* a .PDF file of exactly 50 MB whose first page gives 10 characters once
\* trimmed was accepted
C29_Witness ==
    /\ Validated
    /\ ret[1]
    /\ request.suffix = <<".", "P", "D", "F">>
    /\ request.st_size = 50 * 1024 * 1024
    /\ TrimmedLength = 10
    /\ Len(request.text) > 10

-----------------------------------------------------------------------------
(* Properties of the TTS request.                                          *)

\* a number from 0.25 to 4.0
ValidSpeed(s) == s.kind = "number" /\ s.v >= 25 /\ s.v <= 400

\* C30: whatever speed and voice the caller passes, the speed sent to the
\* service is a number from 0.25 to 4.0, the requested one when that is
\* already such a number, and the voice sent is the requested voice when it
\* is one of the six known voices and nova otherwise.
C30_SentParametersValid ==
    called = "generate_audio" =>
        \A i \in 1..Len(ret.sent) :
            /\ ValidSpeed(ret.sent[i].speed)
            /\ ValidSpeed(request.speed) => ret.sent[i].speed = request.speed
            /\ ret.sent[i].voice \in {"alloy", "echo", "fable", "onyx", "nova", "shimmer"}
            /\ ret.sent[i].voice =
                  IF request.voice \in {"alloy", "echo", "fable", "onyx", "nova", "shimmer"}
                  THEN request.voice
                  ELSE "nova"

-----------------------------------------------------------------------------
(* Properties of the result of process_pdf.                                *)

-----------------------------------------------------------------------------
(* Idempotence of optimize_for_platform.                                   *)

\* C27: for every platform and script, optimize_for_platform applied to its
\* own result returns that result: a truncated script that carries the
\* ellipsis is not shortened further and gains no second ellipsis.
C27_OptimizeIdempotent ==
    called = "optimize_again" => ret = request

\* a truncated script, one marker over the word budget of its platform, was
\* optimized again
C27_Witness ==
    /\ called = "optimize_again"
    /\ platform \in KnownPlatforms
    /\ request # script
    /\ Len(Split(request)) = TargetWords(platform_limits[platform].optimal_duration) + 1
    /\ Split(request)[Len(Split(request))] = Ellipsis
    /\ ret = request

-----------------------------------------------------------------------------
(* Properties of the three duration estimates.                             *)

\* C25 as stated: for every script and segment size the end of the last
\* caption, the estimate of optimize_for_platform and estimate_duration at
\* speed 1.0 are the same number.
C25_EstimatesEqual ==
    called = "estimates" =>
        /\ ret.caption_end = ret.estimated
        /\ ret.estimated = ret.voice

\* C25: the estimate of optimize_for_platform and estimate_duration at speed
\* 1.0 are the same float; the end of the last caption is within one part
\* in 2^40 of them, the captions' durations being rounded one by one; for a
\* script without words all three are 0.
C25_EstimatesAgreeUpToRounding ==
    called = "estimates" =>
        /\ ret.estimated = ret.voice
        /\ FloatWithin(ret.caption_end, ret.estimated, 40)
        /\ Split(script) = <<>> =>
               /\ ret.caption_end = FloatZero
               /\ ret.estimated = FloatZero
               /\ ret.voice = FloatZero

\* a script of several captions whose last caption ends one rounding step
\* away from the estimate
C25_Witness ==
    /\ called = "estimates"
    /\ Len(Split(script)) > 2 * words_per_caption
    /\ ret.caption_end # ret.estimated
    /\ ret.estimated = ret.voice

-----------------------------------------------------------------------------
(* Properties of generate_captions (under SpecCaptions).                   *)

CaptionsReturned == called = "generate_captions"

\* the whitespace-separated tokens of each caption text, concatenated in order
RECURSIVE TokensOf(_, _)
TokensOf(caption_data, i) ==
    IF i > Len(caption_data) THEN <<>>
    ELSE Split(caption_data[i].text) \o TokensOf(caption_data, i + 1)

TextsOf(caption_data) == [i \in 1..Len(caption_data) |-> caption_data[i].text]

\* the number of words in caption i
WordsIn(caption_data, i) == Len(Split(caption_data[i].text))

\* C4: joining the caption texts in order and splitting on whitespace gives
\* exactly the token sequence of the script, and so does concatenating the
\* tokens of each caption (no token is lost, duplicated, reordered or cut in
\* two by a segment boundary).
C4_TokensPreserved ==
    CaptionsReturned =>
        /\ Split(Join(TextsOf(ret))) = Split(script)
        /\ TokensOf(ret, 1) = Split(script)

\* a script with irregular whitespace was cut into several captions
C4_Witness ==
    /\ CaptionsReturned
    /\ Len(ret) >= 2
    /\ script # Join(Split(script))

\* C5: the captions are contiguous and non-overlapping: the first starts at
\* 0, every caption ends at its start plus its duration, and every caption
\* ends where the next one starts.
C5_Contiguous ==
    CaptionsReturned =>
        /\ Len(ret) > 0 => ret[1].start = 0
        /\ \A i \in 1..Len(ret) :
              /\ ret[i].end = ret[i].start + ret[i].duration
              /\ ret[i].start <= ret[i].end
        /\ \A i \in 1..(Len(ret) - 1) : ret[i].end = ret[i + 1].start

\* three captions, the last shorter than the others
C5_Witness ==
    /\ CaptionsReturned
    /\ Len(ret) >= 3
    /\ ret[Len(ret)].duration < ret[1].duration

\* C6: n tokens and k words per caption give ceil(n / k) captions; all but
\* the last hold exactly k words, the last holds 1..k words, none is empty,
\* and an empty or whitespace-only script gives no caption.
C6_SegmentSizes ==
    CaptionsReturned =>
        LET n == Len(Split(script))
            k == words_per_caption
        IN  /\ Len(ret) = (n + k - 1) \div k
            /\ \A i \in 1..(Len(ret) - 1) : WordsIn(ret, i) = k
            /\ Len(ret) > 0 =>
                  /\ WordsIn(ret, Len(ret)) >= 1
                  /\ WordsIn(ret, Len(ret)) <= k
            /\ \A i \in 1..Len(ret) : ret[i].text # <<>>
            /\ (\A j \in 1..Len(script) : script[j] \in Whitespace) => ret = <<>>

\* a full caption followed by a shorter last one
C6_Witness ==
    /\ CaptionsReturned
    /\ words_per_caption = 2
    /\ Len(ret) = 2
    /\ WordsIn(ret, 2) = 1

\* a whitespace-only script went through the segmenter
C6_WitnessBlank ==
    /\ CaptionsReturned
    /\ Len(script) > 0
    /\ \A j \in 1..Len(script) : script[j] \in Whitespace

\* C7: every caption lasts its own word count divided by 2.5 words per
\* second (5 * duration = 2 * words, in seconds), and the nine-word scenario
\* with 5 words per caption gives (0, 2.0, 2.0) and (2.0, 1.6, 3.6).
C7_Durations ==
    CaptionsReturned =>
        /\ \A i \in 1..Len(ret) :
              5 * ret[i].duration = Seconds(2 * WordsIn(ret, i))
        /\ (script = FoxScript /\ words_per_caption = 5) =>
              /\ Len(ret) = 2
              /\ ret[1].start = 0    /\ ret[1].duration = 2000 /\ ret[1].end = 2000
              /\ ret[2].start = 2000 /\ ret[2].duration = 1600 /\ ret[2].end = 3600
              /\ Split(ret[1].text) = SubSeq(Split(FoxScript), 1, 5)
              /\ Split(ret[2].text) = SubSeq(Split(FoxScript), 6, 9)

\* the nine-word scenario has been segmented
C7_Witness ==
    /\ CaptionsReturned
    /\ script = FoxScript
    /\ words_per_caption = 5
    /\ Len(ret) = 2

-----------------------------------------------------------------------------
(* Properties of optimize_for_platform (under SpecOptimize).               *)

OptimizeReturned == called = "optimize_for_platform"

\* optimal_duration(P) in seconds, as the specification lists it
OptimalSeconds(p) ==
    CASE p = "tiktok" -> 60 [] p = "instagram" -> 30 [] p = "youtube" -> 45

\* the word budget of P, as the specification lists it
BudgetWords(p) ==
    CASE p = "tiktok" -> 150 [] p = "instagram" -> 75 [] p = "youtube" -> 112

\* tokens / 150 * 60 seconds is at most optimal_duration(P)
FitsOptimal(s, p) == Len(Split(s)) * SecondsPerMinute <= OptimalSeconds(p) * words_per_minute

\* C1: for every known platform the estimated speaking time of the
\* optimized script (token count / 150 * 60 s) is at most optimal_duration.
C1_NeverExceedsOptimal ==
    (OptimizeReturned /\ platform \in KnownPlatforms) => FitsOptimal(ret, platform)

\* C8: a script whose estimated duration is at most optimal_duration(P) is
\* returned as it was given, character for character.
C8_UnchangedWithinLimit ==
    (OptimizeReturned /\ platform \in KnownPlatforms /\ FitsOptimal(script, platform))
        => ret = script

\* a script of exactly the budget, with irregular whitespace, was optimized
C8_Witness ==
    /\ OptimizeReturned
    /\ platform \in KnownPlatforms
    /\ Len(Split(script)) = BudgetWords(platform)
    /\ script # Join(Split(script))

\* C9: a script over the limit comes back as its first 150 / 75 / 112
\* tokens followed by one ellipsis token, joined by single spaces.
C9_TruncatedWithEllipsis ==
    (OptimizeReturned /\ platform \in KnownPlatforms /\ ~FitsOptimal(script, platform))
        => /\ Split(ret) = Append(Take(Split(script), BudgetWords(platform)), Ellipsis)
           /\ Len(Split(ret)) = BudgetWords(platform) + 1
           /\ ret = Join(Split(ret))

\* the 200-word script was optimized for youtube
C9_Witness ==
    /\ OptimizeReturned
    /\ platform = "youtube"
    /\ Len(Split(script)) = 200
    /\ Len(Split(ret)) = 113

\* C10: for a platform name outside the table the script is returned
\* unchanged, whatever its length.
C10_UnknownPlatformUnchanged ==
    (OptimizeReturned /\ platform \notin KnownPlatforms) => ret = script

\* a script longer than every budget was optimized for an unknown platform
C10_Witness ==
    /\ OptimizeReturned
    /\ platform \notin KnownPlatforms
    /\ Len(Split(script)) > 150
    /\ ret = script

====
